---------------------------- MODULE Spec2Model ----------------------------
(***************************************************************************)
(* A model of the control stream (ControlStream.c, src/unnamed/part_000)   *)
(* and of the input stream (src/src/InputStream.c) of moonlight-common-c.  *)
(*                                                                         *)
(* The program is a set of threads that share file-scope variables.  Each  *)
(* group of threads is given its own specification over the same           *)
(* variables:                                                              *)
(*   SpecSend     the threads that call sendMessageEnet concurrently       *)
(*   SpecInval    the reference frame invalidation queue and its worker    *)
(*   SpecQuality  the connection quality window of connectionSawFrame      *)
(*   SpecInput    the input packet queue and its dispatch worker           *)
(*   SpecAbsMouse the same worker fed by pointer positions only, until the  *)
(*                queue is full                                            *)
(*   SpecRecv     the dispatch of a received control packet                *)
(*   SpecKeyboard the input stream fed by key events                       *)
(*   SpecLifecycle the input stream from its start to its stop, with its   *)
(*                callers                                                  *)
(*   SpecControl  startControlStream, the three threads it creates, and    *)
(*                stopControlStream                                        *)
(***************************************************************************)
EXTENDS Integers, Sequences, FiniteSets, TLC

VARIABLES
    \* ---- the session's profile ----
    AppVersionQuad,             \* <<major, minor, patch>> of the server
    \* ---- sendMessageEnet and its callers ----
    enetMutex,                  \* the thread holding enetMutex, or "free"
    currentEnetSequenceNumber,  \* the outgoing GCM sequence counter
    sendPc,                     \* each sender's position in sendMessageEnet
    enetPacket,                 \* the frame each sender holds
    wire,                       \* the enet_peer_send calls so far, in call order
    nSends,                     \* sendMessageEnet invocations so far
    \* ---- the reference frame invalidation queue and its worker ----
    rfiEnabled,                 \* what isReferenceFrameInvalidationEnabled() returns
    stopping,
    idrFrameRequired,
    invalidReferenceFrameTuples,\* the queue, oldest tuple first
    invalidateRefFramesEvent,   \* TRUE while the event is set
    lastSeenFrame,
    lossFrontier,               \* the last frame reported lost so far
    lossCall,                   \* the connectionDetectedFrameLoss call in progress
    idrCall,                    \* the requestIdrOnDemand call in progress
    irfPc,                      \* the position of invalidateRefFramesFunc
    payload,                    \* <<payload[0], payload[1]>> of the worker
    irfMsg,                     \* the message the worker is sending
    failedAsserts,              \* the LC_ASSERTs that have failed
    pass,                       \* what the worker has dequeued in this pass
    escalation,                 \* what is known since the last bound-exceeded offer
    \* ---- the connection quality window ----
    lastGoodFrame,
    intervalGoodFrameCount,
    intervalTotalFrameCount,
    intervalStartTimeMs,
    lastIntervalLossPercentage,
    lastConnectionStatusUpdate,
    nowMs,                      \* what PltGetMillis() returns
    statusUpdates,              \* the connectionStatusUpdate calls so far, in order
    evaluation,                 \* the last window connectionSawFrame evaluated
    \* ---- the input stream ----
    initialized,
    startPc,                    \* the position of startInputStream
    packetQueue,                \* the packet holders queued, oldest first
    inputPc,                    \* the position of inputSendThreadProc
    holder,                     \* the packet holder inputSendThreadProc works on
    totalDelta,                 \* <<totalDeltaX, totalDeltaY>>
    inputSent,                  \* the packets handed to the transport, in order
    inputErr,                   \* what inputSendThreadProc passed to connectionTerminated
    nInputCalls,                \* the packet holders offered to the queue so far
    service,                    \* the pass of inputSendThreadProc in progress or last ended
    \* ---- controlReceiveThreadFunc ----
    recvPc,
    recvTerminated,             \* the codes passed to connectionTerminated
    recvEvent,                  \* the event that ended the receive thread
    rumble,                     \* the last ListenerCallbacks.rumble call
    recvAssertFailed,
    \* ---- the callers of the input stream ----
    inputCall,                  \* the last public input operation and what it returned
    lbqShutdown,                \* TRUE once LbqSignalQueueShutdown(&packetQueue) ran
    stopPc,                     \* the position of stopInputStream
    \* ---- startControlStream, stopControlStream and the three threads ----
    ctlPhase,                   \* where the control stream is between start and stop
    ctlScript,                  \* the statements the starting or stopping thread has left
    ctlErr,                     \* what startControlStream returned
    ctlSock,
    peer,
    client,
    threadState,                \* of each of the three threads
    threadInterrupted,          \* PltInterruptThread was called on the thread
    threadPc,                   \* where each thread is in its loop
    hostOps,                    \* the threads inside a call on peer or client
    unlockedOp,                 \* the last such call made without enetMutex
    callbacks,                  \* the listener callbacks so far, in order
    sendFailed,                 \* the threads one of whose sends has failed
    afterFailure,               \* what a thread did after its send failed
    released,                   \* what happened at and after the release of the transport
    \* ---- the drain after the server's disconnect ----
    intercept,                  \* client->intercept
    disconnectPending,
    incoming,                   \* the datagrams at the host's socket, oldest first
    drainPc,                    \* the position of controlReceiveThreadFunc
    serviceCall,                \* the timeout and the result of the last serviceEnetHost
    drainLog,                   \* the events handled and the callbacks made, in order
    behindDisconnect,           \* the messages that stood behind an intercepted disconnect
    nArrived,                   \* the datagrams that have arrived so far
    \* ---- the codec of the encrypted control stream ----
    codecPc,                    \* where the frame is between the sender and the receive thread
    codecMsg,                   \* the type, the payload and the sequence number of the message
    codecFrame,                 \* the ENet packet sendMessageEnet has built
    codecSend,                  \* what encryptControlMessage returned and whether the packet went on
    codecData,                  \* the packet the receive thread gets
    codecResult,               \* what the receive thread did with the packet
    \* ---- the loss statistics thread and the loss counter ----
    statsPc,                    \* where lossStatsThreadFunc is
    periodicPingPayload,        \* its ping payload
    lossStatsPayload,           \* its loss statistics payload
    lossCountSinceLastReport,
    statsSent,                  \* the messages it has sent
    statsTerminated,            \* its connectionTerminated calls
    lostPc,                     \* where connectionLostPackets is
    lostSum,                    \* the amount it adds and the sum it is about to store
    lossAdded,                  \* the losses reported to connectionLostPackets
    lossAtEmission,             \* lossAdded at the last construction and the last send
    nLost,                     \* calls of connectionLostPackets
    \* ---- the packets the input queue has accepted ----
    accepted,                  \* the packets added to packetQueue, in order
    \* ---- the receive thread and enetMutex ----
    recvLockPc,                 \* where controlReceiveThreadFunc is
    recvLockDone,              \* its last sleep or callback, and whether it held enetMutex
    \* ---- what the invalidation worker owes the producers ----
    owed,                       \* the requests not answered by a dispatch since they were made
    nRequests                   \* the calls of the producers

sendVars == <<enetMutex, currentEnetSequenceNumber, sendPc, enetPacket, wire, nSends>>

invalVars == <<rfiEnabled, stopping, idrFrameRequired, invalidReferenceFrameTuples,
               invalidateRefFramesEvent, lossFrontier, lossCall, idrCall,
               irfPc, payload, irfMsg, failedAsserts, pass, escalation>>

qualityVars == <<lastGoodFrame, intervalGoodFrameCount, intervalTotalFrameCount,
                 intervalStartTimeMs, lastIntervalLossPercentage,
                 lastConnectionStatusUpdate, nowMs, statusUpdates, evaluation>>

inputVars == <<initialized, startPc, packetQueue, inputPc, holder, totalDelta,
               inputSent, inputErr, nInputCalls, service>>

recvVars == <<recvPc, recvTerminated, recvEvent, rumble, recvAssertFailed>>

callerVars == <<inputCall, lbqShutdown, stopPc>>

sessionVars == <<ctlPhase, ctlScript, ctlErr, ctlSock, peer, client, threadState,
                 threadInterrupted, threadPc, hostOps, unlockedOp, callbacks,
                 sendFailed, afterFailure, released>>

drainVars == <<intercept, disconnectPending, incoming, drainPc, serviceCall, drainLog,
               behindDisconnect, nArrived>>

codecVars == <<codecPc, codecMsg, codecFrame, codecSend, codecData, codecResult>>

statsVars == <<statsPc, periodicPingPayload, lossStatsPayload, lossCountSinceLastReport,
               statsSent, statsTerminated, lostPc, lostSum, lossAdded, lossAtEmission,
               nLost>>

orderVars == <<accepted>>

recvLockVars == <<recvLockPc, recvLockDone>>

owedVars == <<owed, nRequests>>

vars == <<AppVersionQuad, lastSeenFrame, sendVars, invalVars, qualityVars, inputVars,
          recvVars, callerVars, sessionVars, drainVars,
          codecVars,
          statsVars,
          orderVars,
          recvLockVars,
          owedVars>>

-----------------------------------------------------------------------------
(* Bounds of the model *)

\* sendMessageEnet invocations in one run
MaxSends == 4

\* The highest frame number reported lost: later losses are reported at this frame
MaxFrame == 4

\* Sample periods that elapse in one run
MaxTicks == 3

\* The highest frame index connectionSawFrame is called with
MaxFrameIndex == 12

\* Packet holders the public input operations offer to the queue in one run
MaxInputCalls == 3

\* Pointer reports in one run of the pointer-only specification
MaxAbsCalls == 31

\* The longest control message payload received, in bytes
MaxPayload == 4

\* The highest frame index seen in a run of the receive thread
MaxRecvFrame == 1

\* The listener callbacks followed in the control stream's threads
MaxCallbacks == 2

\* Datagrams the server sends while the receive thread runs
MaxDrainFrames == 3

\* The longest payload of a message put through the codec
MaxCodecPayload == 3

\* The controller reports of a run of the gamepad specification
MaxGamepadCalls == 3

\* The messages of the loss statistics thread and the calls of
\* connectionLostPackets of a run
MaxStatsSends == 3

MaxLossCalls == 2

\* The public input calls of a run of the ordering specification
MaxOrderCalls == 3

\* The public input calls of a run of the mouse motion specification
MaxMotionCalls == 3

-----------------------------------------------------------------------------
(* The protocol profile *)

\* The server versions the model runs against: Gen3, Gen4, Gen5, Gen7 before the
\* periodic ping, Gen7 with the periodic ping, Gen7 with the encrypted control stream.
Versions ==
    { <<3, 0, 0>>, <<4, 0, 0>>, <<5, 0, 0>>, <<7, 1, 404>>, <<7, 1, 415>>, <<7, 1, 431>> }

APP_VERSION_AT_LEAST(q, a, b, c) ==
    \/ q[1] > a
    \/ q[1] = a /\ q[2] > b
    \/ q[1] = a /\ q[2] = b /\ q[3] >= c

\* initializeControlStream: encryptedControlStream = APP_VERSION_AT_LEAST(7, 1, 431)
encryptedControlStream == APP_VERSION_AT_LEAST(AppVersionQuad, 7, 1, 431)

\* initializeControlStream: usePeriodicPing = APP_VERSION_AT_LEAST(7, 1, 415)
usePeriodicPing == APP_VERSION_AT_LEAST(AppVersionQuad, 7, 1, 415)

-----------------------------------------------------------------------------
(* sendMessageEnet *)

\* The threads that send on the control stream: lossStatsThreadFunc,
\* invalidateRefFramesFunc and inputSendThreadProc (through
\* sendInputPacketOnControlStream).
SenderThreads == { "lossStats", "invalidateRefFrames", "inputSend" }

\* The OpenSSL calls of encryptControlMessage, in order; "none" fails.
GcmEncryptSteps == { "init", "ivlen", "keyiv", "update", "final", "gettag" }

\* encryptControlMessage's return value when the call `failing` fails ("none": no
\* call fails).  ret is a bool: the "ret = -1" of a failed EVP_CTRL_GCM_GET_TAG
\* converts to true.
encryptControlMessage(failing) ==
    IF failing = "none" THEN TRUE
    ELSE IF failing = "gettag" THEN TRUE
    ELSE FALSE

NoPacket == [live |-> FALSE, enc |-> FALSE, seq |-> 0]

\* currentEnetSequenceNumber after "encPacket->seq = currentEnetSequenceNumber++"
SeqAfterAllocNoIncrement(seq) == seq

SeqAfterAlloc(seq) == seq + 1

\* A sender enters sendMessageEnet and enet_packet_create runs.
SendCreate(t) ==
    /\ sendPc[t] = "idle"
    /\ AppVersionQuad[1] >= 5
    /\ nSends' = nSends + 1
    /\ \E created \in BOOLEAN :
         IF ~created
           THEN \* enetPacket == NULL: return false
                UNCHANGED <<sendPc, enetPacket>>
           ELSE /\ enetPacket' = [enetPacket EXCEPT ![t] =
                                     [live |-> TRUE, enc |-> encryptedControlStream, seq |-> 0]]
                /\ sendPc' = [sendPc EXCEPT ![t] =
                                 IF encryptedControlStream THEN "lockSeq" ELSE "lockSend"]
    /\ UNCHANGED <<enetMutex, currentEnetSequenceNumber, wire>>

\* PltLockMutex(&enetMutex) before the sequence number is taken
SendLockSeq(t) ==
    /\ sendPc[t] = "lockSeq"
    /\ enetMutex = "free"
    /\ enetMutex' = t
    /\ sendPc' = [sendPc EXCEPT ![t] = "seq"]
    /\ UNCHANGED <<currentEnetSequenceNumber, enetPacket, wire, nSends>>

\* The first critical section: take the sequence number, encrypt, unlock.
SendSeqAndEncrypt(t) ==
    /\ sendPc[t] = "seq"
    /\ enetMutex = t
    /\ currentEnetSequenceNumber' = SeqAfterAlloc(currentEnetSequenceNumber)
    /\ \E failing \in GcmEncryptSteps \cup {"none"} :
         IF ~encryptControlMessage(failing)
           THEN \* enet_packet_destroy, unlock, return false
                /\ enetPacket' = [enetPacket EXCEPT ![t] = NoPacket]
                /\ sendPc' = [sendPc EXCEPT ![t] = "idle"]
           ELSE /\ enetPacket' = [enetPacket EXCEPT ![t].seq = currentEnetSequenceNumber]
                /\ sendPc' = [sendPc EXCEPT ![t] = "lockSend"]
    /\ enetMutex' = "free"
    /\ UNCHANGED <<wire, nSends>>

\* PltLockMutex(&enetMutex) before enet_peer_send
SendLockSend(t) ==
    /\ sendPc[t] = "lockSend"
    /\ enetMutex = "free"
    /\ enetMutex' = t
    /\ sendPc' = [sendPc EXCEPT ![t] = "send"]
    /\ UNCHANGED <<currentEnetSequenceNumber, enetPacket, wire, nSends>>

\* The second critical section: enet_peer_send, unlock.
SendPeerSend(t) ==
    /\ sendPc[t] = "send"
    /\ enetMutex = t
    /\ \E err \in { -1, 0 } :
         /\ wire' = Append(wire, [enc |-> enetPacket[t].enc, seq |-> enetPacket[t].seq,
                                  by |-> t, err |-> err])
         /\ IF err < 0
              THEN \* enet_packet_destroy, return false
                   /\ enetPacket' = [enetPacket EXCEPT ![t] = NoPacket]
                   /\ sendPc' = [sendPc EXCEPT ![t] = "idle"]
              ELSE /\ enetPacket' = [enetPacket EXCEPT ![t] = NoPacket]
                   /\ sendPc' = [sendPc EXCEPT ![t] = "lockFlush"]
    /\ enetMutex' = "free"
    /\ UNCHANGED <<currentEnetSequenceNumber, nSends>>

\* PltLockMutex(&enetMutex) before enet_host_flush
SendLockFlush(t) ==
    /\ sendPc[t] = "lockFlush"
    /\ enetMutex = "free"
    /\ enetMutex' = t
    /\ sendPc' = [sendPc EXCEPT ![t] = "flush"]
    /\ UNCHANGED <<currentEnetSequenceNumber, enetPacket, wire, nSends>>

\* The third critical section: enet_host_flush, unlock, return true.
SendFlush(t) ==
    /\ sendPc[t] = "flush"
    /\ enetMutex = t
    /\ enetMutex' = "free"
    /\ sendPc' = [sendPc EXCEPT ![t] = "idle"]
    /\ UNCHANGED <<currentEnetSequenceNumber, enetPacket, wire, nSends>>

\* initializeControlStream, for the variables of sendMessageEnet
InitSend ==
    /\ enetMutex = "free"
    /\ currentEnetSequenceNumber = 0
    /\ sendPc = [t \in SenderThreads |-> "idle"]
    /\ enetPacket = [t \in SenderThreads |-> NoPacket]
    /\ wire = <<>>
    /\ nSends = 0

-----------------------------------------------------------------------------
(* The packet type table and the payloads built from it *)

IDX_REQUEST_IDR_FRAME == 0

IDX_INVALIDATE_REF_FRAMES == 2

IDX_LOSS_STATS == 3

\* 0x1407, 0x1410, 0x1404, 0x140c, 0x1417, -1, -1, -1
packetTypesGen3 == <<5127, 5136, 5124, 5132, 5143, -1, -1, -1>>

\* 0x0606, 0x0609, 0x0604, 0x060a, 0x0611, -1, -1, -1
packetTypesGen4 == <<1542, 1545, 1540, 1546, 1553, -1, -1, -1>>

\* 0x0305, 0x0307, 0x0301, 0x0201, 0x0204, 0x0207, -1, -1
packetTypesGen5 == <<773, 775, 769, 513, 516, 519, -1, -1>>

\* 0x0305, 0x0307, 0x0301, 0x0201, 0x0204, 0x0206, 0x010b, 0x0100
packetTypesGen7 == <<773, 775, 769, 513, 516, 518, 267, 256>>

\* 0x0305, 0x0307, 0x0301, 0x0201, 0x0204, 0x0206, 0x010b, 0x0109
packetTypesGen7Enc == <<773, 775, 769, 513, 516, 518, 267, 265>>

\* packetTypes[idx], as initializeControlStream selects the table
packetTypes(idx) ==
    IF AppVersionQuad[1] = 3 THEN packetTypesGen3[idx + 1]
    ELSE IF AppVersionQuad[1] = 4 THEN packetTypesGen4[idx + 1]
    ELSE IF AppVersionQuad[1] = 5 THEN packetTypesGen5[idx + 1]
    ELSE IF encryptedControlStream THEN packetTypesGen7Enc[idx + 1]
    ELSE packetTypesGen7[idx + 1]

NoMsg == [kind |-> "none", type |-> 0, body |-> <<>>]

\* The message requestIdrFrame sends
IdrFrameMessage ==
    IF AppVersionQuad[1] >= 5
      THEN [kind |-> "idr",
            type |-> packetTypes(IDX_INVALIDATE_REF_FRAMES),
            body |-> <<IF lastSeenFrame < 32 THEN 0 ELSE lastSeenFrame - 32,
                       lastSeenFrame, 0>>]
      ELSE [kind |-> "idr",
            type |-> packetTypes(IDX_REQUEST_IDR_FRAME),
            body |-> <<0, 0>>]

\* The message requestInvalidateReferenceFrames sends for payload[0], payload[1]
InvalidateMessage(pl) ==
    [kind |-> "range",
     type |-> packetTypes(IDX_INVALIDATE_REF_FRAMES),
     body |-> <<pl[1], pl[2], 0>>]

-----------------------------------------------------------------------------
(* The linked blocking queue *)

\* LbqInitializeLinkedBlockingQueue(&invalidReferenceFrameTuples, 20)
InvalidationQueueBound == 20

\* LbqOfferQueueItem on a queue of the given bound: the status and the queue after
LbqOfferQueueItem(q, bound, item) ==
    IF Len(q) >= bound
      THEN [ret |-> "LBQ_BOUND_EXCEEDED", queue |-> q]
      ELSE [ret |-> "LBQ_SUCCESS", queue |-> Append(q, item)]

\* LbqPollQueueElement: the status, the element and the queue after
LbqPollQueueElement(q) ==
    IF q = <<>>
      THEN [ret |-> "LBQ_NO_ELEMENT", queue |-> q]
      ELSE [ret |-> "LBQ_SUCCESS", queue |-> Tail(q)]

-----------------------------------------------------------------------------
(* connectionDetectedFrameLoss, requestIdrOnDemand *)

Min(a, b) == IF a <= b THEN a ELSE b

NoCall == [active |-> FALSE, alloc |-> "none"]

NoEscalation == [pending |-> FALSE, untested |-> FALSE, fresh |-> FALSE]

\* The positions of the worker from which its next test of idrFrameRequired is the
\* test that decides the next message
UntestedPcs == { "wait", "clear", "checkStop", "checkIdr", "sending" }

\* What queueFrameInvalidationTuple does before PltSetEvent: the queue and
\* idrFrameRequired after, for malloc's result `allocated`
QueueTupleEffectNoBound(q, idr, enabled, allocated, startFrame, endFrame) ==
    IF enabled /\ allocated
      THEN [queue |-> Append(q, [startFrame |-> startFrame, endFrame |-> endFrame]),
            idr |-> idr]
      ELSE [queue |-> q, idr |-> TRUE]

QueueTupleEffect(q, idr, enabled, allocated, startFrame, endFrame) ==
    IF enabled
      THEN IF allocated
             THEN LET offer == LbqOfferQueueItem(q, InvalidationQueueBound,
                                   [startFrame |-> startFrame, endFrame |-> endFrame])
                  IN  IF offer.ret = "LBQ_BOUND_EXCEEDED"
                        THEN [queue |-> q, idr |-> TRUE]
                        ELSE [queue |-> offer.queue, idr |-> idr]
             ELSE [queue |-> q, idr |-> TRUE]
      ELSE [queue |-> q, idr |-> TRUE]

\* The record of the worker's pass after a producer ran: `late` when a tuple was
\* queued after the pass's first dequeue, `disturbed` when the producer ran after
\* the worker tested idrFrameRequired.
PassAfterProducer(p, queued) ==
    [p EXCEPT !.late = p.late \/ (p.begun /\ queued),
              !.disturbed = p.disturbed \/ irfPc \notin UntestedPcs \/ irfPc = "sending"]

\* connectionDetectedFrameLoss(startFrame, endFrame) up to PltSetEvent.  The video
\* receive path reports losses in frame order: a loss starts after the last one
\* reported and covers one or two frames.
DetectFrameLoss ==
    /\ ~lossCall.active
    /\ \E startFrame \in { Min(lossFrontier + 1, MaxFrame) } :
       \E endFrame \in { startFrame, Min(startFrame + 1, MaxFrame) } :
       \E allocated \in BOOLEAN :
         LET eff == QueueTupleEffect(invalidReferenceFrameTuples, idrFrameRequired,
                                     rfiEnabled, allocated, startFrame, endFrame)
             exceeded == /\ rfiEnabled
                         /\ allocated
                         /\ Len(invalidReferenceFrameTuples) >= InvalidationQueueBound
         IN  /\ lossFrontier' = endFrame
             /\ failedAsserts' = IF startFrame <= endFrame THEN failedAsserts
                                 ELSE failedAsserts \cup {"startFrame <= endFrame"}
             /\ invalidReferenceFrameTuples' = eff.queue
             /\ idrFrameRequired' = eff.idr
             /\ lossCall' = [active |-> TRUE,
                             alloc |-> IF ~rfiEnabled THEN "none"
                                       ELSE IF allocated THEN "ok" ELSE "failed"]
             /\ escalation' = IF exceeded /\ ~escalation.pending
                                THEN [pending |-> TRUE,
                                      untested |-> irfPc \in UntestedPcs,
                                      fresh |-> irfPc = "sending" \/ ~pass.begun]
                                ELSE escalation
             /\ pass' = PassAfterProducer(pass, eff.queue # invalidReferenceFrameTuples)
    /\ UNCHANGED <<rfiEnabled, stopping, invalidateRefFramesEvent, idrCall,
                   irfPc, payload, irfMsg>>

\* PltSetEvent(&invalidateRefFramesEvent), the last statement of
\* queueFrameInvalidationTuple
DetectFrameLossSetEvent ==
    /\ lossCall.active
    /\ invalidateRefFramesEvent' = TRUE
    /\ lossCall' = NoCall
    /\ UNCHANGED <<rfiEnabled, stopping, idrFrameRequired, invalidReferenceFrameTuples,
                   lossFrontier, idrCall, irfPc, payload, irfMsg,
                   failedAsserts, pass, escalation>>

\* requestIdrOnDemand: idrFrameRequired = true
RequestIdrOnDemand ==
    /\ ~idrCall
    /\ idrFrameRequired' = TRUE
    /\ idrCall' = TRUE
    /\ pass' = PassAfterProducer(pass, FALSE)
    /\ UNCHANGED <<rfiEnabled, stopping, invalidReferenceFrameTuples,
                   invalidateRefFramesEvent, lossFrontier, lossCall, irfPc, payload,
                   irfMsg, failedAsserts, escalation>>

\* requestIdrOnDemand: PltSetEvent(&invalidateRefFramesEvent)
RequestIdrOnDemandSetEvent ==
    /\ idrCall
    /\ invalidateRefFramesEvent' = TRUE
    /\ idrCall' = FALSE
    /\ UNCHANGED <<rfiEnabled, stopping, idrFrameRequired, invalidReferenceFrameTuples,
                   lossFrontier, lossCall, irfPc, payload, irfMsg,
                   failedAsserts, pass, escalation>>

-----------------------------------------------------------------------------
(* invalidateRefFramesFunc *)

\* The record kept of a pass of the worker: whether it has dequeued, the first
\* tuple it dequeued, the last, how many of the tuples that were queued at its
\* first dequeue are still to be dequeued, the last of those tuples, what the
\* producers did meanwhile, and the bound-exceeded offer its message answers.
NoPass == [begun |-> FALSE, first |-> <<0, 0>>, last |-> <<0, 0>>, left |-> 0,
           availLast |-> <<0, 0>>, late |-> FALSE, disturbed |-> FALSE,
           answers |-> NoEscalation]

PassAfterDequeue(p, q) ==
    LET qfit == <<Head(q).startFrame, Head(q).endFrame>>
    IN  IF ~p.begun
          THEN [p EXCEPT !.begun = TRUE, !.first = qfit, !.last = qfit,
                         !.left = Len(q) - 1,
                         !.availLast = <<q[Len(q)].startFrame, q[Len(q)].endFrame>>]
          ELSE [p EXCEPT !.last = qfit,
                         !.left = IF p.left > 0 THEN p.left - 1 ELSE 0]

\* PltWaitForEvent(&invalidateRefFramesEvent) returns
IrfWait ==
    /\ irfPc = "wait"
    /\ invalidateRefFramesEvent
    /\ irfPc' = "clear"
    /\ UNCHANGED <<rfiEnabled, stopping, idrFrameRequired, invalidReferenceFrameTuples,
                   invalidateRefFramesEvent, lossFrontier, lossCall, idrCall,
                   payload, irfMsg, failedAsserts, pass, escalation>>

\* PltClearEvent(&invalidateRefFramesEvent)
IrfClearEvent ==
    /\ irfPc = "clear"
    /\ invalidateRefFramesEvent' = FALSE
    /\ irfPc' = "checkStop"
    /\ UNCHANGED <<rfiEnabled, stopping, idrFrameRequired, invalidReferenceFrameTuples,
                   lossFrontier, lossCall, idrCall, payload, irfMsg,
                   failedAsserts, pass, escalation>>

\* The worker going on whatever stopping is
IrfCheckStoppingIgnores ==
    /\ irfPc = "checkStop"
    /\ irfPc' = "checkIdr"
    /\ UNCHANGED <<rfiEnabled, stopping, idrFrameRequired, invalidReferenceFrameTuples,
                   invalidateRefFramesEvent, lossFrontier, lossCall, idrCall,
                   payload, irfMsg, failedAsserts, pass, escalation>>

\* if (stopping) break;
IrfCheckStopping ==
    /\ irfPc = "checkStop"
    /\ irfPc' = IF stopping THEN "exited" ELSE "checkIdr"
    /\ UNCHANGED <<rfiEnabled, stopping, idrFrameRequired, invalidReferenceFrameTuples,
                   invalidateRefFramesEvent, lossFrontier, lossCall, idrCall,
                   payload, irfMsg, failedAsserts, pass, escalation>>

\* The branch the worker takes on the value it reads from idrFrameRequired
IrfBranchAlwaysRange(idr) == "firstPoll"

IrfBranch(idr) == IF idr THEN "drain" ELSE "firstPoll"

\* if (idrFrameRequired) ... else requestInvalidateReferenceFrames()
IrfCheckIdr ==
    /\ irfPc = "checkIdr"
    /\ irfPc' = IrfBranch(idrFrameRequired)
    /\ failedAsserts' = IF irfPc' = "firstPoll" /\ ~rfiEnabled
                          THEN failedAsserts \cup {"isReferenceFrameInvalidationEnabled()"}
                          ELSE failedAsserts
    /\ UNCHANGED <<rfiEnabled, stopping, idrFrameRequired, invalidReferenceFrameTuples,
                   invalidateRefFramesEvent, lossFrontier, lossCall, idrCall,
                   payload, irfMsg, pass, escalation>>

\* while (getNextFrameInvalidationTuple(&qfit)) free(qfit);  one call
IrfDrain ==
    /\ irfPc = "drain"
    /\ LET poll == LbqPollQueueElement(invalidReferenceFrameTuples)
       IN  IF poll.ret = "LBQ_SUCCESS"
             THEN /\ invalidReferenceFrameTuples' = poll.queue
                  /\ pass' = PassAfterDequeue(pass, invalidReferenceFrameTuples)
                  /\ irfPc' = "drain"
             ELSE /\ irfPc' = "clearIdr"
                  /\ UNCHANGED <<invalidReferenceFrameTuples, pass>>
    /\ UNCHANGED <<rfiEnabled, stopping, idrFrameRequired, invalidateRefFramesEvent,
                   lossFrontier, lossCall, idrCall, payload, irfMsg,
                   failedAsserts, escalation>>

\* idrFrameRequired = false;
IrfClearIdr ==
    /\ irfPc = "clearIdr"
    /\ idrFrameRequired' = FALSE
    /\ irfPc' = "sendIdr"
    /\ UNCHANGED <<rfiEnabled, stopping, invalidReferenceFrameTuples,
                   invalidateRefFramesEvent, lossFrontier, lossCall, idrCall,
                   payload, irfMsg, failedAsserts, pass, escalation>>

\* requestIdrFrame: the message is handed to sendMessageAndDiscardReply
IrfSendIdr ==
    /\ irfPc = "sendIdr"
    /\ irfMsg' = IdrFrameMessage
    /\ irfPc' = "sending"
    /\ pass' = [pass EXCEPT !.answers = escalation]
    /\ escalation' = NoEscalation
    /\ UNCHANGED <<rfiEnabled, stopping, idrFrameRequired, invalidReferenceFrameTuples,
                   invalidateRefFramesEvent, lossFrontier, lossCall, idrCall,
                   payload, failedAsserts>>

\* payload[1] after the body of the do-while loop for the tuple qfit
AggregateFirstEnd(pl, qfit) == <<pl[1], pl[2]>>

Aggregate(pl, qfit) == <<pl[1], qfit.endFrame>>

\* requestInvalidateReferenceFrames: the first getNextFrameInvalidationTuple, and
\* the first run of the loop body
IrfFirstPoll ==
    /\ irfPc = "firstPoll"
    /\ LET poll == LbqPollQueueElement(invalidReferenceFrameTuples)
           qfit == Head(invalidReferenceFrameTuples)
       IN  IF poll.ret = "LBQ_SUCCESS"
             THEN /\ invalidReferenceFrameTuples' = poll.queue
                  /\ pass' = PassAfterDequeue(pass, invalidReferenceFrameTuples)
                  /\ payload' = Aggregate(<<qfit.startFrame, qfit.endFrame>>, qfit)
                  /\ failedAsserts' = IF qfit.startFrame <= qfit.endFrame THEN failedAsserts
                                      ELSE failedAsserts \cup {"qfit->startFrame <= qfit->endFrame"}
                  /\ irfPc' = "poll"
             ELSE \* nothing queued: return
                  /\ irfPc' = "wait"
                  /\ pass' = NoPass
                  /\ UNCHANGED <<invalidReferenceFrameTuples, payload, failedAsserts>>
    /\ UNCHANGED <<rfiEnabled, stopping, idrFrameRequired, invalidateRefFramesEvent,
                   lossFrontier, lossCall, idrCall, irfMsg, escalation>>

\* while (getNextFrameInvalidationTuple(&qfit)): one call, and the loop body
IrfPoll ==
    /\ irfPc = "poll"
    /\ LET poll == LbqPollQueueElement(invalidReferenceFrameTuples)
           qfit == Head(invalidReferenceFrameTuples)
       IN  IF poll.ret = "LBQ_SUCCESS"
             THEN /\ invalidReferenceFrameTuples' = poll.queue
                  /\ pass' = PassAfterDequeue(pass, invalidReferenceFrameTuples)
                  /\ failedAsserts' = IF qfit.endFrame >= payload[2] THEN failedAsserts
                                      ELSE failedAsserts \cup {"qfit->endFrame >= payload[1]"}
                  /\ payload' = Aggregate(payload, qfit)
                  /\ irfPc' = "poll"
             ELSE /\ irfPc' = "sendRange"
                  /\ UNCHANGED <<invalidReferenceFrameTuples, pass, payload,
                                 failedAsserts>>
    /\ UNCHANGED <<rfiEnabled, stopping, idrFrameRequired, invalidateRefFramesEvent,
                   lossFrontier, lossCall, idrCall, irfMsg, escalation>>

\* requestInvalidateReferenceFrames: the message is handed to
\* sendMessageAndDiscardReply
IrfSendRange ==
    /\ irfPc = "sendRange"
    /\ irfMsg' = InvalidateMessage(payload)
    /\ irfPc' = "sending"
    /\ pass' = [pass EXCEPT !.answers = escalation]
    /\ escalation' = NoEscalation
    /\ UNCHANGED <<rfiEnabled, stopping, idrFrameRequired, invalidReferenceFrameTuples,
                   invalidateRefFramesEvent, lossFrontier, lossCall, idrCall,
                   payload, failedAsserts>>

\* The worker clearing the event at the end of a pass
IrfSendReturnsClearsEvent ==
    /\ irfPc = "sending"
    /\ irfMsg' = NoMsg
    /\ irfPc' = "wait"
    /\ payload' = <<0, 0>>
    /\ pass' = NoPass
    /\ invalidateRefFramesEvent' = FALSE
    /\ UNCHANGED <<rfiEnabled, stopping, idrFrameRequired, invalidReferenceFrameTuples,
                   lossFrontier, lossCall, idrCall, failedAsserts, escalation>>

\* sendMessageAndDiscardReply returns (when it fails, connectionTerminated is
\* called); the worker goes round its loop
IrfSendReturns ==
    /\ irfPc = "sending"
    /\ irfMsg' = NoMsg
    /\ irfPc' = "wait"
    /\ payload' = <<0, 0>>
    /\ pass' = NoPass
    /\ UNCHANGED <<rfiEnabled, stopping, idrFrameRequired, invalidReferenceFrameTuples,
                   invalidateRefFramesEvent, lossFrontier, lossCall, idrCall,
                   failedAsserts, escalation>>

\* initializeControlStream, for the variables of the invalidation worker
InitInval ==
    /\ rfiEnabled \in BOOLEAN
    /\ stopping = FALSE
    /\ idrFrameRequired = FALSE
    /\ invalidReferenceFrameTuples = <<>>
    /\ invalidateRefFramesEvent = FALSE
    /\ lossFrontier = 0
    /\ lossCall = NoCall
    /\ idrCall = FALSE
    /\ irfPc = "wait"
    /\ payload = <<0, 0>>
    /\ irfMsg = NoMsg
    /\ failedAsserts = {}
    /\ pass = NoPass
    /\ escalation = NoEscalation

-----------------------------------------------------------------------------
(* connectionReceivedCompleteFrame, connectionSawFrame *)

CONN_IMMEDIATE_POOR_LOSS_RATE == 30

CONN_CONSECUTIVE_POOR_LOSS_RATE == 15

CONN_OKAY_LOSS_RATE == 5

CONN_STATUS_SAMPLE_PERIOD == 3000

CONN_STATUS_OKAY == "CONN_STATUS_OKAY"

CONN_STATUS_POOR == "CONN_STATUS_POOR"

\* frameLossPercent = 100 - (intervalGoodFrameCount * 100) / intervalTotalFrameCount;
\* both counts are non-negative, where C's division is \div
FrameLossPercent(good, total) == 100 - ((good * 100) \div total)

\* The status connectionSawFrame passes to connectionStatusUpdate at the end of a
\* window, or "none" when it makes no call
WindowUpdateImmediateOnly(frameLossPercent, lastLoss, lastStatus) ==
    IF lastStatus # CONN_STATUS_POOR /\ frameLossPercent >= CONN_IMMEDIATE_POOR_LOSS_RATE
      THEN CONN_STATUS_POOR
    ELSE IF frameLossPercent <= CONN_OKAY_LOSS_RATE /\ lastStatus # CONN_STATUS_OKAY
      THEN CONN_STATUS_OKAY
    ELSE "none"

WindowUpdateOkayBelowPoor(frameLossPercent, lastLoss, lastStatus) ==
    IF lastStatus # CONN_STATUS_POOR
         /\ (\/ frameLossPercent >= CONN_IMMEDIATE_POOR_LOSS_RATE
             \/ /\ frameLossPercent >= CONN_CONSECUTIVE_POOR_LOSS_RATE
                /\ lastLoss >= CONN_CONSECUTIVE_POOR_LOSS_RATE)
      THEN CONN_STATUS_POOR
    ELSE IF frameLossPercent < CONN_CONSECUTIVE_POOR_LOSS_RATE
              /\ lastStatus # CONN_STATUS_OKAY
      THEN CONN_STATUS_OKAY
    ELSE "none"

WindowUpdate(frameLossPercent, lastLoss, lastStatus) ==
    IF lastStatus # CONN_STATUS_POOR
         /\ (\/ frameLossPercent >= CONN_IMMEDIATE_POOR_LOSS_RATE
             \/ /\ frameLossPercent >= CONN_CONSECUTIVE_POOR_LOSS_RATE
                /\ lastLoss >= CONN_CONSECUTIVE_POOR_LOSS_RATE)
      THEN CONN_STATUS_POOR
    ELSE IF frameLossPercent <= CONN_OKAY_LOSS_RATE /\ lastStatus # CONN_STATUS_OKAY
      THEN CONN_STATUS_OKAY
    ELSE "none"

NoEvaluation == [done |-> FALSE, good |-> 0, total |-> 0, lossBefore |-> 0,
                 statusBefore |-> CONN_STATUS_OKAY, emitted |-> "none"]

\* PltGetMillis() advances by one sample period
Tick ==
    /\ nowMs < MaxTicks * CONN_STATUS_SAMPLE_PERIOD
    /\ nowMs' = nowMs + CONN_STATUS_SAMPLE_PERIOD
    /\ UNCHANGED <<lastSeenFrame, lastGoodFrame, intervalGoodFrameCount,
                   intervalTotalFrameCount, intervalStartTimeMs,
                   lastIntervalLossPercentage, lastConnectionStatusUpdate,
                   statusUpdates, evaluation>>

\* connectionReceivedCompleteFrame(frameIndex): the frame last seen is complete
ReceivedCompleteFrame ==
    /\ lastGoodFrame # lastSeenFrame
    /\ lastGoodFrame' = lastSeenFrame
    /\ intervalGoodFrameCount' = intervalGoodFrameCount + 1
    /\ UNCHANGED <<lastSeenFrame, intervalTotalFrameCount, intervalStartTimeMs,
                   lastIntervalLossPercentage, lastConnectionStatusUpdate,
                   nowMs, statusUpdates, evaluation>>

\* connectionSawFrame(frameIndex)
SawFrame(frameIndex) ==
    LET due == nowMs - intervalStartTimeMs >= CONN_STATUS_SAMPLE_PERIOD
        evaluated == due /\ intervalTotalFrameCount # 0
        frameLossPercent == FrameLossPercent(intervalGoodFrameCount,
                                             intervalTotalFrameCount)
        update == WindowUpdate(frameLossPercent, lastIntervalLossPercentage,
                               lastConnectionStatusUpdate)
    IN  /\ IF evaluated
             THEN /\ lastConnectionStatusUpdate' =
                        IF update = "none" THEN lastConnectionStatusUpdate ELSE update
                  /\ statusUpdates' =
                        IF update = "none" THEN statusUpdates
                        ELSE Append(statusUpdates, update)
                  /\ lastIntervalLossPercentage' = frameLossPercent
                  /\ evaluation' = [done |-> TRUE,
                                    good |-> intervalGoodFrameCount,
                                    total |-> intervalTotalFrameCount,
                                    lossBefore |-> lastIntervalLossPercentage,
                                    statusBefore |-> lastConnectionStatusUpdate,
                                    emitted |-> update]
             ELSE UNCHANGED <<lastConnectionStatusUpdate, statusUpdates,
                              lastIntervalLossPercentage, evaluation>>
        /\ intervalStartTimeMs' = IF due THEN nowMs ELSE intervalStartTimeMs
        /\ intervalGoodFrameCount' = IF due THEN 0 ELSE intervalGoodFrameCount
        /\ intervalTotalFrameCount' =
              (IF due THEN 0 ELSE intervalTotalFrameCount) + (frameIndex - lastSeenFrame)
        /\ lastSeenFrame' = frameIndex
        /\ UNCHANGED <<lastGoodFrame, nowMs>>

\* initializeControlStream, for the variables of the quality window
InitQuality ==
    /\ lastGoodFrame = 0
    /\ intervalGoodFrameCount = 0
    /\ intervalTotalFrameCount = 0
    /\ intervalStartTimeMs = 0
    /\ lastIntervalLossPercentage = 0
    /\ lastConnectionStatusUpdate = CONN_STATUS_OKAY
    /\ nowMs = 0
    /\ statusUpdates = <<>>
    /\ evaluation = NoEvaluation

-----------------------------------------------------------------------------
(* The input stream: the public input operations *)

\* LbqInitializeLinkedBlockingQueue(&packetQueue, 30)
InputQueueBound == 30

INT16_MAX == 32767

INT16_MIN == -32768

\* A short, and an unsigned short, from the low 16 bits of x
ToUint16(x) == x % 65536

ToInt16(x) == IF ToUint16(x) >= 32768 THEN ToUint16(x) - 65536 ELSE ToUint16(x)

\* htons on a little-endian host: the two bytes of the 16-bit value exchanged
htons(x) == (ToUint16(x) % 256) * 256 + (ToUint16(x) \div 256)

\* htonl: the four bytes of the value, most significant first
htonl(x) == <<(x \div 16777216) % 256, (x \div 65536) % 256, (x \div 256) % 256,
              x % 256>>

NoHolder == [type |-> "none"]

HapticsPacket == [type |-> "PACKET_TYPE_HAPTICS"]

\* magic counts from MOUSE_MOVE_REL_MAGIC
RelMousePacket(deltaX, deltaY) ==
    [type |-> "PACKET_TYPE_REL_MOUSE_MOVE",
     magic |-> IF AppVersionQuad[1] >= 5 THEN 1 ELSE 0,
     deltaX |-> htons(deltaX), deltaY |-> htons(deltaY)]

AbsMousePacket(x, y, referenceWidth, referenceHeight) ==
    [type |-> "PACKET_TYPE_ABS_MOUSE_MOVE",
     x |-> htons(x), y |-> htons(y),
     width |-> htons(referenceWidth - 1), height |-> htons(referenceHeight - 1)]

MouseButtonPacket(action, button) ==
    [type |-> "PACKET_TYPE_MOUSE_BUTTON",
     action |-> IF AppVersionQuad[1] >= 5 THEN action + 1 ELSE action,
     button |-> htonl(button)]

\* The modifier flags of Limelight.h
MODIFIER_SHIFT == 1

MODIFIER_CTRL == 2

MODIFIER_ALT == 4

MODIFIER_META == 8

\* Bit i of the byte x, and the C operators & and | on bytes
Bit(x, i) == (x \div 2^i) % 2

BitAnd(x, y) ==
    LET b(i) == Bit(x, i) * Bit(y, i) * 2^i
    IN  b(0) + b(1) + b(2) + b(3) + b(4) + b(5) + b(6) + b(7)

BitOr(x, y) ==
    LET b(i) == (Bit(x, i) + Bit(y, i) - Bit(x, i) * Bit(y, i)) * 2^i
    IN  b(0) + b(1) + b(2) + b(3) + b(4) + b(5) + b(6) + b(7)

\* ~flag, as far as the byte it is and-ed into can tell
BitNot(flag) == 255 - flag

\* The switch of LiSendKeyboardEvent taken on the whole key code
KeyboardFixupWholeKeyCode(keyCode, modifiers) ==
    CASE keyCode \in {91, 92} -> BitAnd(modifiers, BitNot(MODIFIER_META))
      [] keyCode = 160 -> BitOr(modifiers, MODIFIER_SHIFT)
      [] keyCode = 161 -> BitAnd(modifiers, BitNot(MODIFIER_SHIFT))
      [] keyCode = 162 -> BitOr(modifiers, MODIFIER_CTRL)
      [] keyCode = 163 -> BitAnd(modifiers, BitNot(MODIFIER_CTRL))
      [] keyCode = 164 -> BitOr(modifiers, MODIFIER_ALT)
      [] keyCode = 165 -> BitAnd(modifiers, BitNot(MODIFIER_ALT))
      [] OTHER -> modifiers

\* The switch of LiSendKeyboardEvent on keyCode & 0xFF; keyCode is a short, and
\* modifiers the byte the caller passed
KeyboardFixup(keyCode, modifiers) ==
    LET vk == keyCode % 256
    IN  CASE vk \in {91, 92} -> BitAnd(modifiers, BitNot(MODIFIER_META))  \* 0x5B, 0x5C
          [] vk = 160 -> BitOr(modifiers, MODIFIER_SHIFT)                 \* 0xA0
          [] vk = 161 -> BitAnd(modifiers, BitNot(MODIFIER_SHIFT))        \* 0xA1
          [] vk = 162 -> BitOr(modifiers, MODIFIER_CTRL)                  \* 0xA2
          [] vk = 163 -> BitAnd(modifiers, BitNot(MODIFIER_CTRL))         \* 0xA3
          [] vk = 164 -> BitOr(modifiers, MODIFIER_ALT)                   \* 0xA4
          [] vk = 165 -> BitAnd(modifiers, BitNot(MODIFIER_ALT))          \* 0xA5
          [] OTHER -> modifiers

KeyboardPacket(keyCode, keyAction, modifiers) ==
    [type |-> "PACKET_TYPE_KEYBOARD", keyAction |-> keyAction, zero1 |-> 0,
     keyCode |-> keyCode, modifiers |-> KeyboardFixup(keyCode, modifiers),
     zero2 |-> 0]

\* sendControllerEventInternal's packet on a server later than Gen3; the fields
\* are kept in host order
MultiControllerPacket(controllerNumber, activeGamepadMask, buttonFlags, triggers, sticks) ==
    [type |-> "PACKET_TYPE_MULTI_CONTROLLER",
     controllerNumber |-> controllerNumber, activeGamepadMask |-> activeGamepadMask,
     buttonFlags |-> buttonFlags, leftTrigger |-> triggers[1],
     rightTrigger |-> triggers[2], sticks |-> sticks]

ControllerPacket(buttonFlags, triggers, sticks) ==
    [type |-> "PACKET_TYPE_CONTROLLER",
     buttonFlags |-> buttonFlags, leftTrigger |-> triggers[1],
     rightTrigger |-> triggers[2], sticks |-> sticks]

\* LiSendHighResScrollEvent's packet; magicA counts from MAGIC_A
ScrollPacket(scrollAmount) ==
    [type |-> "PACKET_TYPE_SCROLL",
     magicA |-> IF AppVersionQuad[1] >= 5 THEN 1 ELSE 0,
     zero1 |-> 0, zero2 |-> 0,
     scrollAmt1 |-> htons(scrollAmount), scrollAmt2 |-> htons(scrollAmount),
     zero3 |-> 0]

\* The values of LinkedBlockingQueue.h
LbqStatus(name) ==
    CASE name = "LBQ_SUCCESS" -> 0
      [] name = "LBQ_INTERRUPTED" -> 1
      [] name = "LBQ_BOUND_EXCEEDED" -> 2
      [] name = "LBQ_NO_ELEMENT" -> 3

\* What a public input operation can return
InputReturns == {-2, -1, 0, 1, 2}

\* The record of the worker's pass after a public operation offered a packet
ServiceAfterOffer(s, ret) ==
    IF s.phase # "none" /\ ret = "LBQ_SUCCESS" THEN [s EXCEPT !.late = TRUE] ELSE s

\* The tail every public input operation shares: malloc, fill the holder,
\* LbqOfferQueueItem, free the holder when the offer fails
\* The tail without its test of initialized
OfferInputPacketUnchecked(packet, ret) ==
    /\ \/ /\ ret = -1
          /\ UNCHANGED <<packetQueue, service, nInputCalls>>
       \/ LET offer == IF lbqShutdown
                         THEN [ret |-> "LBQ_INTERRUPTED", queue |-> packetQueue]
                         ELSE LbqOfferQueueItem(packetQueue, InputQueueBound, packet)
          IN  /\ ret = LbqStatus(offer.ret)
              /\ packetQueue' = offer.queue
              /\ service' = ServiceAfterOffer(service, offer.ret)
              /\ nInputCalls' = nInputCalls + 1
    /\ UNCHANGED <<initialized, startPc, inputPc, holder, totalDelta, inputSent,
                   inputErr>>

\* ret is what the operation returns
OfferInputPacket(packet, ret) ==
    /\ IF ~initialized
         THEN /\ ret = -2
              /\ UNCHANGED <<packetQueue, service, nInputCalls>>
         ELSE \/ /\ ret = -1                               \* malloc returned NULL
                 /\ UNCHANGED <<packetQueue, service, nInputCalls>>
              \/ LET offer == IF lbqShutdown
                                THEN [ret |-> "LBQ_INTERRUPTED", queue |-> packetQueue]
                                ELSE LbqOfferQueueItem(packetQueue, InputQueueBound,
                                                       packet)
                 IN  /\ ret = LbqStatus(offer.ret)
                     /\ packetQueue' = offer.queue
                     /\ service' = ServiceAfterOffer(service, offer.ret)
                     /\ nInputCalls' = nInputCalls + 1
    /\ UNCHANGED <<initialized, startPc, inputPc, holder, totalDelta, inputSent,
                   inputErr>>

\* The same tail for a caller that has seen startInputStream set initialized
QueueInputPacket(packet) ==
    /\ initialized
    /\ \E ret \in InputReturns : OfferInputPacket(packet, ret)

\* The relative moves the model reports: a large move to the right; a move that
\* brings it to INT16_MAX and is itself large downwards; the largest move to the
\* left, large upwards; and no move
RelMoves == { <<30000, 0>>, <<2767, 20000>>, <<-32768, -30000>>, <<0, 0>> }

\* The <<buttonFlags, leftTrigger>> the model reports for controller 0
ControllerStates == { <<0, 0>>, <<0, 255>>, <<1, 0>> }

\* LiSendMouseMoveEvent(deltaX, deltaY)
LiSendMouseMoveEvent(deltaX, deltaY) ==
    IF deltaX = 0 /\ deltaY = 0
      THEN /\ initialized
           /\ UNCHANGED <<initialized, startPc, packetQueue, inputPc, holder,
                          totalDelta, inputSent, inputErr, nInputCalls, service>>
      ELSE QueueInputPacket(RelMousePacket(deltaX, deltaY))

\* LiSendMousePositionEvent(x, y, referenceWidth, referenceHeight)
LiSendMousePositionEvent(x, y, referenceWidth, referenceHeight) ==
    QueueInputPacket(AbsMousePacket(x, y, referenceWidth, referenceHeight))

\* LiSendMouseButtonEvent(action, button)
LiSendMouseButtonEvent(action, button) ==
    QueueInputPacket(MouseButtonPacket(action, button))

\* LiSendMultiControllerEvent, through sendControllerEventInternal; triggers is
\* <<leftTrigger, rightTrigger>>, sticks the four stick coordinates
LiSendMultiControllerEvent(controllerNumber, activeGamepadMask, buttonFlags, triggers, sticks) ==
    QueueInputPacket(IF AppVersionQuad[1] = 3
                       THEN ControllerPacket(buttonFlags, triggers, sticks)
                       ELSE MultiControllerPacket(controllerNumber, activeGamepadMask,
                                                  buttonFlags, triggers, sticks))

\* A public input operation that records what it was called with and returned,
\* and how many such calls there have been
RecordedInputCall(op, args, packet) ==
    /\ \E ret \in InputReturns :
         /\ OfferInputPacket(packet, ret)
         /\ inputCall' = [op |-> op, args |-> args, ret |-> ret,
                          queued |-> packetQueue' # packetQueue,
                          n |-> inputCall.n + 1]
    /\ UNCHANGED <<lbqShutdown, stopPc>>

\* LiSendKeyboardEvent(keyCode, keyAction, modifiers)
LiSendKeyboardEvent(keyCode, keyAction, modifiers) ==
    RecordedInputCall("LiSendKeyboardEvent", <<keyCode, keyAction, modifiers>>,
                      KeyboardPacket(keyCode, keyAction, modifiers))

\* LiSendMouseMoveEvent, LiSendMousePositionEvent, LiSendMouseButtonEvent,
\* LiSendControllerEvent, LiSendMultiControllerEvent, LiSendHighResScrollEvent and
\* LiSendScrollEvent, called with arguments that pass the tests which follow the
\* test of initialized (a move and a scroll amount other than zero)
RecordedPointerAndPadCall ==
    \/ RecordedInputCall("LiSendMouseMoveEvent", <<1, -1>>, RelMousePacket(1, -1))
    \/ RecordedInputCall("LiSendMousePositionEvent", <<10, 20, 1280, 720>>,
                         AbsMousePacket(10, 20, 1280, 720))
    \/ RecordedInputCall("LiSendMouseButtonEvent", <<7, 1>>, MouseButtonPacket(7, 1))
    \/ RecordedInputCall("LiSendControllerEvent", <<1, 0, 0, 0, 0, 0, 0>>,
                         IF AppVersionQuad[1] = 3
                           THEN ControllerPacket(1, <<0, 0>>, <<0, 0, 0, 0>>)
                           ELSE MultiControllerPacket(0, 1, 1, <<0, 0>>, <<0, 0, 0, 0>>))
    \/ RecordedInputCall("LiSendMultiControllerEvent", <<1, 3, 1, 0, 0, 0, 0, 0, 0>>,
                         IF AppVersionQuad[1] = 3
                           THEN ControllerPacket(1, <<0, 0>>, <<0, 0, 0, 0>>)
                           ELSE MultiControllerPacket(1, 3, 1, <<0, 0>>, <<0, 0, 0, 0>>))
    \/ RecordedInputCall("LiSendHighResScrollEvent", <<60>>, ScrollPacket(60))
    \/ RecordedInputCall("LiSendScrollEvent", <<1>>, ScrollPacket(1 * 120))

\* startInputStream: connectTcpSocket or PltCreateThread fails, return the error
StartInputFails ==
    /\ startPc = "notStarted"
    /\ startPc' = "failed"
    /\ UNCHANGED <<initialized, packetQueue, inputPc, holder, totalDelta, inputSent,
                   inputErr, nInputCalls, service>>

\* startInputStream: PltCreateThread succeeds (on a server before Gen5 after
\* connectTcpSocket succeeded)
StartInputThread ==
    /\ startPc = "notStarted"
    /\ startPc' = "threadCreated"
    /\ inputPc' = "wait"
    /\ UNCHANGED <<initialized, packetQueue, holder, totalDelta, inputSent,
                   inputErr, nInputCalls, service>>

\* startInputStream: initialized = true
StartInputInitialized ==
    /\ startPc = "threadCreated"
    /\ startPc' = "initialized"
    /\ initialized' = TRUE
    /\ UNCHANGED <<packetQueue, inputPc, holder, totalDelta, inputSent,
                   inputErr, nInputCalls, service>>

\* startInputStream: sendEnableHaptics(), return
StartInputEnableHaptics ==
    /\ startPc = "initialized"
    /\ startPc' = "started"
    /\ IF AppVersionQuad[1] < 7 \/ (AppVersionQuad[1] = 7 /\ AppVersionQuad[2] < 1)
         THEN UNCHANGED <<packetQueue, service>>
         ELSE \E allocated \in BOOLEAN :
                IF ~allocated
                  THEN UNCHANGED <<packetQueue, service>>
                  ELSE LET offer == LbqOfferQueueItem(packetQueue, InputQueueBound,
                                                      HapticsPacket)
                       IN  /\ packetQueue' = offer.queue
                           /\ service' = ServiceAfterOffer(service, offer.ret)
    /\ UNCHANGED <<initialized, inputPc, holder, totalDelta, inputSent,
                   inputErr, nInputCalls>>

\* stopInputStream, called once startInputStream has returned 0: initialized = false
StopInputClearInitialized ==
    /\ startPc = "started"
    /\ stopPc = "notCalled"
    /\ stopPc' = "cleared"
    /\ initialized' = FALSE
    /\ UNCHANGED <<startPc, packetQueue, inputPc, holder, totalDelta, inputSent,
                   inputErr, nInputCalls, service, inputCall, lbqShutdown>>

\* stopInputStream: LbqSignalQueueShutdown, PltInterruptThread, shutdownTcpSocket
StopInputSignalShutdown ==
    /\ stopPc = "cleared"
    /\ stopPc' = "signalled"
    /\ lbqShutdown' = TRUE
    /\ UNCHANGED <<inputVars, inputCall>>

\* stopInputStream: PltJoinThread returns once inputSendThreadProc has returned;
\* PltCloseThread, closeSocket, return 0
StopInputJoin ==
    /\ stopPc = "signalled"
    /\ inputPc = "returned"
    /\ stopPc' = "stopped"
    /\ UNCHANGED <<inputVars, inputCall, lbqShutdown>>

-----------------------------------------------------------------------------
(* The input stream: inputSendThreadProc *)

NoService == [phase |-> "none", start |-> <<>>, late |-> FALSE, sent |-> <<>>]

BatchedTypes ==
    {"PACKET_TYPE_MULTI_CONTROLLER", "PACKET_TYPE_REL_MOUSE_MOVE",
     "PACKET_TYPE_ABS_MOUSE_MOVE"}

\* (short)htons(field): the host-order signed value of a stored delta
HostDelta(field) == ToInt16(htons(field))

\* The overflow test of the relative-move loop, on int operands
DeltaOverflowsNoCheck(partial, total) == FALSE

DeltaOverflows(partial, total) ==
    \/ partial[1] + total[1] > INT16_MAX
    \/ partial[1] + total[1] < INT16_MIN
    \/ partial[2] + total[2] > INT16_MAX
    \/ partial[2] + total[2] < INT16_MIN

\* The holder an absolute-move loop iteration keeps, given the one it has and the
\* one it polled
AbsHolderKeepFirst(current, polled) == current

AbsHolderAfterPoll(current, polled) == polled

\* LbqWaitForQueueElement returns the head of the queue
InputWait ==
    /\ inputPc = "wait"
    /\ ~lbqShutdown
    /\ packetQueue # <<>>
    /\ holder' = Head(packetQueue)
    /\ packetQueue' = Tail(packetQueue)
    /\ totalDelta' = IF Head(packetQueue).type = "PACKET_TYPE_REL_MOUSE_MOVE"
                       THEN <<HostDelta(Head(packetQueue).deltaX),
                              HostDelta(Head(packetQueue).deltaY)>>
                       ELSE <<0, 0>>
    /\ inputPc' = IF Head(packetQueue).type \in BatchedTypes THEN "batch" ELSE "send"
    /\ service' = [phase |-> "running", start |-> packetQueue, late |-> FALSE,
                   sent |-> <<>>]
    /\ UNCHANGED <<initialized, startPc, inputSent, inputErr, nInputCalls>>

\* LbqWaitForQueueElement returns LBQ_INTERRUPTED after LbqSignalQueueShutdown,
\* or the loop finds the thread interrupted: return
InputWaitInterrupted ==
    /\ inputPc = "wait"
    /\ lbqShutdown
    /\ inputPc' = "returned"
    /\ UNCHANGED <<initialized, startPc, packetQueue, holder, totalDelta, inputSent,
                   inputErr, nInputCalls, service>>

\* The multi-controller batching loop without the test of activeGamepadMask
InputBatchMultiControllerAnyMask ==
    IF packetQueue = <<>>
         \/ Head(packetQueue).type # "PACKET_TYPE_MULTI_CONTROLLER"
      THEN /\ inputPc' = "send"
           /\ UNCHANGED <<packetQueue, holder>>
      ELSE LET newPkt == Head(packetQueue)
           IN  IF \/ newPkt.buttonFlags # holder.buttonFlags
                  \/ newPkt.controllerNumber # holder.controllerNumber
                 THEN /\ inputPc' = "send"
                      /\ UNCHANGED <<packetQueue, holder>>
                 ELSE /\ packetQueue' = Tail(packetQueue)
                      /\ holder' = [holder EXCEPT !.leftTrigger = newPkt.leftTrigger,
                                                  !.rightTrigger = newPkt.rightTrigger,
                                                  !.sticks = newPkt.sticks]
                      /\ inputPc' = "batch"

\* One iteration of the multi-controller batching loop
InputBatchMultiController ==
    IF packetQueue = <<>>
         \/ Head(packetQueue).type # "PACKET_TYPE_MULTI_CONTROLLER"
      THEN /\ inputPc' = "send"
           /\ UNCHANGED <<packetQueue, holder>>
      ELSE LET newPkt == Head(packetQueue)
           IN  IF \/ newPkt.buttonFlags # holder.buttonFlags
                  \/ newPkt.controllerNumber # holder.controllerNumber
                  \/ newPkt.activeGamepadMask # holder.activeGamepadMask
                 THEN /\ inputPc' = "send"
                      /\ UNCHANGED <<packetQueue, holder>>
                 ELSE /\ packetQueue' = Tail(packetQueue)
                      /\ holder' = [holder EXCEPT !.leftTrigger = newPkt.leftTrigger,
                                                  !.rightTrigger = newPkt.rightTrigger,
                                                  !.sticks = newPkt.sticks]
                      /\ inputPc' = "batch"

\* One iteration of the relative-move batching loop; leaving the loop stores the
\* totals in the holder
InputBatchRelMouse ==
    LET leave == /\ inputPc' = "send"
                 /\ holder' = [holder EXCEPT
                                 !.deltaX = htons(ToInt16(totalDelta[1])),
                                 !.deltaY = htons(ToInt16(totalDelta[2]))]
                 /\ UNCHANGED <<packetQueue, totalDelta>>
    IN  IF packetQueue = <<>>
             \/ Head(packetQueue).type # "PACKET_TYPE_REL_MOUSE_MOVE"
          THEN leave
          ELSE LET partial == <<HostDelta(Head(packetQueue).deltaX),
                                HostDelta(Head(packetQueue).deltaY)>>
               IN  IF DeltaOverflows(partial, totalDelta)
                     THEN leave
                     ELSE /\ packetQueue' = Tail(packetQueue)
                          /\ totalDelta' = <<totalDelta[1] + partial[1],
                                             totalDelta[2] + partial[2]>>
                          /\ inputPc' = "batch"
                          /\ UNCHANGED holder

\* The absolute-move loop without the test of the type of the next packet
InputBatchAbsMouseAnyType ==
    IF packetQueue = <<>>
      THEN /\ inputPc' = "send"
           /\ UNCHANGED <<packetQueue, holder>>
      ELSE /\ packetQueue' = Tail(packetQueue)
           /\ holder' = AbsHolderAfterPoll(holder, Head(packetQueue))
           /\ inputPc' = "batch"

\* One iteration of the absolute-move loop
InputBatchAbsMouse ==
    IF packetQueue = <<>>
         \/ Head(packetQueue).type # "PACKET_TYPE_ABS_MOUSE_MOVE"
      THEN /\ inputPc' = "send"
           /\ UNCHANGED <<packetQueue, holder>>
      ELSE /\ packetQueue' = Tail(packetQueue)
           /\ holder' = AbsHolderAfterPoll(holder, Head(packetQueue))
           /\ inputPc' = "batch"

\* An iteration of the batching loop of the holder's packet type: peek, test,
\* poll, update. Only this thread removes from the queue, so the element polled
\* is the element peeked.
InputBatch ==
    /\ inputPc = "batch"
    /\ IF holder.type = "PACKET_TYPE_MULTI_CONTROLLER"
         THEN InputBatchMultiController /\ UNCHANGED totalDelta
         ELSE IF holder.type = "PACKET_TYPE_REL_MOUSE_MOVE"
                THEN InputBatchRelMouse
                ELSE InputBatchAbsMouse /\ UNCHANGED totalDelta
    /\ UNCHANGED <<initialized, startPc, inputSent, inputErr, nInputCalls, service>>

\* The send of the holder with encryptData applied on every server
InputSendAlwaysEncrypts ==
    /\ inputPc = "send"
    /\ \E outcome \in {"sent", "encryptFailed", "sendFailed"} :
         /\ IF outcome = "sent"
              THEN /\ inputSent' =
                        Append(inputSent,
                               [packet |-> holder,
                                encrypted |-> TRUE,
                                via |-> IF AppVersionQuad[1] < 5 THEN "inputSock"
                                                                ELSE "controlStream"])
                   /\ inputPc' = "wait"
                   /\ inputErr' = inputErr
                   /\ service' = [service EXCEPT !.phase = "done",
                                                 !.sent = Append(@, holder)]
              ELSE /\ inputPc' = "returned"
                   /\ inputErr' = -1
                   /\ inputSent' = inputSent
                   /\ service' = [service EXCEPT !.phase = "failed"]
    /\ holder' = NoHolder
    /\ UNCHANGED <<initialized, startPc, packetQueue, totalDelta, nInputCalls>>

\* The send of the holder: plaintext through the control stream when the control
\* stream is encrypted; otherwise encryptData and then the TCP socket before Gen5,
\* the control stream from Gen5 on. A failure reports connectionTerminated(err)
\* and ends the thread.
InputSend ==
    /\ inputPc = "send"
    /\ \E outcome \in {"sent", "encryptFailed", "sendFailed"} :
         /\ outcome = "encryptFailed" => ~encryptedControlStream
         /\ IF outcome = "sent"
              THEN /\ inputSent' =
                        Append(inputSent,
                               [packet |-> holder,
                                encrypted |-> ~encryptedControlStream,
                                via |-> IF AppVersionQuad[1] < 5 THEN "inputSock"
                                                                ELSE "controlStream"])
                   /\ inputPc' = "wait"
                   /\ inputErr' = inputErr
                   /\ service' = [service EXCEPT !.phase = "done",
                                                 !.sent = Append(@, holder)]
              ELSE /\ inputPc' = "returned"
                   /\ inputErr' = -1
                   /\ inputSent' = inputSent
                   /\ service' = [service EXCEPT !.phase = "failed"]
    /\ holder' = NoHolder
    /\ UNCHANGED <<initialized, startPc, packetQueue, totalDelta, nInputCalls>>

\* initializeInputStream
InitInput ==
    /\ initialized = FALSE
    /\ startPc = "notStarted"
    /\ packetQueue = <<>>
    /\ inputPc = "notStarted"
    /\ holder = NoHolder
    /\ totalDelta = <<0, 0>>
    /\ inputSent = <<>>
    /\ inputErr = 0
    /\ nInputCalls = 0
    /\ service = NoService

\* No public input operation has been called, and stopInputStream has not
NoInputCall == [op |-> "none", args |-> <<>>, ret |-> 0, queued |-> FALSE, n |-> 0]

InitCallers ==
    /\ inputCall = NoInputCall
    /\ lbqShutdown = FALSE
    /\ stopPc = "notCalled"

-----------------------------------------------------------------------------
(* controlReceiveThreadFunc *)

IDX_RUMBLE_DATA == 6

IDX_TERMINATION == 7

ML_ERROR_GRACEFUL_TERMINATION == 0

ML_ERROR_UNEXPECTED_EARLY_TERMINATION == -102

ML_ERROR_PROTECTED_CONTENT == -103

\* The bytes a control message's payload is drawn from
PayloadBytes == {0, 1, 2, 3, 14, 35, 128, 147}

\* The payloads of the model: every byte string of up to MaxPayload bytes
Payloads == UNION { [1..n -> PayloadBytes] : n \in 0..MaxPayload }

\* The message types of the model: rumble, the two termination types, and one
\* type no branch handles
ReceivedTypes == {267, 256, 265, 513}

\* The values an uninitialized terminationReason is drawn from, and those of an
\* uninitialized argument of the rumble callback
Uninit16 == {0, 256, 512, 65535}

UninitRumble == {65535}

\* A uint32_t is written as the int that has the same 32 bits, which is also the
\* value the cast (int)terminationErrorCode gives it.
\* BbGet32 on a BYTE_ORDER_BIG buffer, BbGet16 on a BYTE_ORDER_LITTLE buffer
BbGet32Big(bytes) ==
    (IF bytes[1] >= 128 THEN bytes[1] - 256 ELSE bytes[1]) * 16777216
      + bytes[2] * 65536 + bytes[3] * 256 + bytes[4]

BbGet16Little(bytes) == bytes[1] + bytes[2] * 256

\* terminationErrorCode (a uint32_t) of the extended termination message
ExtendedTerminationNoFrameTest(hresult) ==
    IF hresult = -2147287005 THEN ML_ERROR_GRACEFUL_TERMINATION
    ELSE IF hresult = -2146528510 THEN ML_ERROR_PROTECTED_CONTENT
    ELSE hresult

ExtendedTermination(hresult) ==
    IF hresult = -2147287005                                 \* 0x80030023
      THEN IF lastSeenFrame # 0
             THEN ML_ERROR_GRACEFUL_TERMINATION
             ELSE ML_ERROR_UNEXPECTED_EARLY_TERMINATION
    ELSE IF hresult = -2146528510                            \* 0x800e9302
      THEN ML_ERROR_PROTECTED_CONTENT
    ELSE hresult

\* terminationErrorCode of the short termination message
ShortTermination(terminationReason) ==
    IF terminationReason = 256                              \* 0x0100
      THEN IF lastSeenFrame # 0
             THEN ML_ERROR_GRACEFUL_TERMINATION
             ELSE ML_ERROR_UNEXPECTED_EARLY_TERMINATION
    ELSE terminationReason

\* TerminationCodes with the length test applied to the payload alone
TerminationCodesPayloadSix(bytes) ==
    IF Len(bytes) >= 6
      THEN { ExtendedTermination(BbGet32Big(bytes)) }
    ELSE IF Len(bytes) >= 2
      THEN { ShortTermination(BbGet16Little(bytes)) }
    ELSE { ShortTermination(r) : r \in Uninit16 }

\* The values (int)terminationErrorCode can take for a termination message with
\* this payload; packetLength counts the two bytes of the type as well. A payload
\* shorter than two bytes leaves terminationReason uninitialized.
TerminationCodes(bytes) ==
    IF Len(bytes) + 2 >= 6
      THEN { ExtendedTermination(BbGet32Big(bytes)) }
    ELSE IF Len(bytes) >= 2
      THEN { ShortTermination(BbGet16Little(bytes)) }
    ELSE { ShortTermination(r) : r \in Uninit16 }

NoEvent == [kind |-> "none", type |-> -1, payload |-> <<>>, frameSeen |-> FALSE]

NoRumble == <<>>

\* serviceEnetHost returns a negative value: connectionTerminated(err), return
ReceiveServiceFails ==
    /\ recvPc = "running"
    /\ AppVersionQuad[1] >= 5
    /\ recvPc' = "returned"
    /\ recvTerminated' = Append(recvTerminated, -1)
    /\ recvEvent' = [NoEvent EXCEPT !.kind = "error"]
    /\ UNCHANGED <<rumble, recvAssertFailed>>

\* ENET_EVENT_TYPE_DISCONNECT: connectionTerminated(-1), return
ReceiveDisconnect ==
    /\ recvPc = "running"
    /\ AppVersionQuad[1] >= 5
    /\ recvPc' = "returned"
    /\ recvTerminated' = Append(recvTerminated, -1)
    /\ recvEvent' = [NoEvent EXCEPT !.kind = "disconnect"]
    /\ UNCHANGED <<rumble, recvAssertFailed>>

\* ENET_EVENT_TYPE_RECEIVE of a packet shorter than its header, or of an
\* encrypted packet that is too short or does not decrypt: discarded
ReceiveDiscarded ==
    /\ recvPc = "running"
    /\ AppVersionQuad[1] >= 5
    /\ UNCHANGED <<recvPc, recvTerminated, recvEvent, rumble, recvAssertFailed>>

\* ENET_EVENT_TYPE_RECEIVE of a control message of this type and payload; on an
\* encrypted control stream framed tells whether it arrived in an encrypted
\* frame (type 0x0001) that decrypted
ReceiveMessage(type, bytes, framed) ==
    /\ recvPc = "running"
    /\ AppVersionQuad[1] >= 5
    /\ recvAssertFailed' = (recvAssertFailed \/ (encryptedControlStream /\ ~framed))
    /\ IF type = packetTypes(IDX_RUMBLE_DATA)
         THEN \* the payloads of the model are shorter than a rumble message, so
              \* the three BbGet16 calls leave their targets uninitialized
              /\ \E controllerNumber \in UninitRumble, lowFreqRumble \in UninitRumble,
                    highFreqRumble \in UninitRumble :
                   rumble' = <<controllerNumber, lowFreqRumble, highFreqRumble>>
              /\ UNCHANGED <<recvPc, recvTerminated, recvEvent>>
       ELSE IF type = packetTypes(IDX_TERMINATION)
         THEN /\ \E code \in TerminationCodes(bytes) :
                   recvTerminated' = Append(recvTerminated, code)
              /\ recvEvent' = [kind |-> "termination", type |-> type,
                               payload |-> bytes, frameSeen |-> lastSeenFrame # 0]
              /\ recvPc' = "returned"
              /\ UNCHANGED rumble
       ELSE UNCHANGED <<recvPc, recvTerminated, recvEvent, rumble>>

\* startControlStream, for the receive thread
InitRecv ==
    /\ recvPc = "running"
    /\ recvTerminated = <<>>
    /\ recvEvent = NoEvent
    /\ rumble = NoRumble
    /\ recvAssertFailed = FALSE

-----------------------------------------------------------------------------
(* startControlStream, stopControlStream and the three threads they create *)

ControlThreads == {"controlReceive", "lossStats", "invalidateRefFrames"}

\* startControlStream with the loss statistics thread created before START B
StartScriptThreadFirst ==
    (IF AppVersionQuad[1] >= 5
       THEN <<<<"enet_host_create", "">>, <<"enet_host_connect", "">>,
              <<"serviceEnetHost", "">>>>
       ELSE <<<<"connectTcpSocket", "">>>>)
    \o <<<<"PltCreateThread", "controlReceive">>, <<"START", "A">>,
         <<"PltCreateThread", "lossStats">>, <<"START", "B">>,
         <<"PltCreateThread", "invalidateRefFrames">>, <<"return", "">>>>

\* The statements of startControlStream on its way to return 0
StartScript ==
    (IF AppVersionQuad[1] >= 5
       THEN <<<<"enet_host_create", "">>, <<"enet_host_connect", "">>,
              <<"serviceEnetHost", "">>>>
       ELSE <<<<"connectTcpSocket", "">>>>)
    \o <<<<"PltCreateThread", "controlReceive">>, <<"START", "A">>, <<"START", "B">>,
         <<"PltCreateThread", "lossStats">>,
         <<"PltCreateThread", "invalidateRefFrames">>, <<"return", "">>>>

\* PltInterruptThread, PltJoinThread, PltCloseThread of one thread
InterruptJoinClose(t) ==
    <<<<"PltInterruptThread", t>>, <<"PltJoinThread", t>>, <<"PltCloseThread", t>>>>

\* The failure branches with the release of the transport ahead of the joins
FailureScriptReleaseFirst(failed) ==
    CASE failed[1] = "enet_host_create" -> <<<<"return", "">>>>
      [] failed[1] = "enet_host_connect" ->
           <<<<"enet_host_destroy", "">>, <<"return", "">>>>
      [] failed[1] = "serviceEnetHost" ->
           <<<<"enet_peer_reset", "">>, <<"enet_host_destroy", "">>, <<"return", "">>>>
      [] failed[1] = "connectTcpSocket" -> <<<<"return", "">>>>
      [] failed = <<"PltCreateThread", "controlReceive">> ->
           <<<<"release", "">>, <<"return", "">>>>
      [] failed[1] = "START" \/ failed = <<"PltCreateThread", "lossStats">> ->
           <<<<"shutdownTcpSocket", "">>, <<"release", "">>>>
             \o InterruptJoinClose("controlReceive") \o <<<<"return", "">>>>
      [] failed = <<"PltCreateThread", "invalidateRefFrames">> ->
           <<<<"shutdownTcpSocket", "">>, <<"release", "">>>>
             \o InterruptJoinClose("lossStats")
             \o InterruptJoinClose("controlReceive") \o <<<<"return", "">>>>

\* The statements that follow stopping = true when a statement of
\* startControlStream has failed
FailureScript(failed) ==
    CASE failed[1] = "enet_host_create" -> <<<<"return", "">>>>
      [] failed[1] = "enet_host_connect" ->
           <<<<"enet_host_destroy", "">>, <<"return", "">>>>
      [] failed[1] = "serviceEnetHost" ->
           <<<<"enet_peer_reset", "">>, <<"enet_host_destroy", "">>, <<"return", "">>>>
      [] failed[1] = "connectTcpSocket" -> <<<<"return", "">>>>
      [] failed = <<"PltCreateThread", "controlReceive">> ->
           <<<<"release", "">>, <<"return", "">>>>
      [] failed[1] = "START" \/ failed = <<"PltCreateThread", "lossStats">> ->
           <<<<"shutdownTcpSocket", "">>>> \o InterruptJoinClose("controlReceive")
             \o <<<<"release", "">>, <<"return", "">>>>
      [] failed = <<"PltCreateThread", "invalidateRefFrames">> ->
           <<<<"shutdownTcpSocket", "">>>> \o InterruptJoinClose("lossStats")
             \o InterruptJoinClose("controlReceive")
             \o <<<<"release", "">>, <<"return", "">>>>

\* The statements of stopControlStream after PltSetEvent
StopScript ==
    <<<<"shutdownTcpSocket", "">>,
      <<"PltInterruptThread", "lossStats">>,
      <<"PltInterruptThread", "invalidateRefFrames">>,
      <<"PltInterruptThread", "controlReceive">>,
      <<"PltJoinThread", "lossStats">>,
      <<"PltJoinThread", "invalidateRefFrames">>,
      <<"PltJoinThread", "controlReceive">>,
      <<"PltCloseThread", "lossStats">>,
      <<"PltCloseThread", "invalidateRefFrames">>,
      <<"PltCloseThread", "controlReceive">>,
      <<"enet_peer_disconnect_now", "">>, <<"enet_host_destroy", "">>,
      <<"closeSocket", "">>, <<"return", "">>>>

\* The next statement of the thread inside startControlStream or stopControlStream
ControlAt(name) == ctlScript # <<>> /\ Head(ctlScript)[1] = name

\* The threads that have been created and have not returned
RunningThreads == { t \in ControlThreads : threadState[t] = "running" }

\* The threads that have been created and not joined
UnjoinedThreads == { t \in ControlThreads : threadState[t] \in {"running", "returned"} }

\* A call on peer or client made without enetMutex
UnlockedCall(name) == [op |-> name, running |-> RunningThreads]

\* The record of the release of the transport, at its first statement
ReleasedNow ==
    IF released.done THEN released
    ELSE [done |-> TRUE, unjoined |-> UnjoinedThreads, lateOps |-> {}]

\* The record after a thread's call on the peer, the host or the socket
ReleasedAfterOp(t) ==
    IF released.done THEN [released EXCEPT !.lateOps = @ \cup {t}] ELSE released

\* The record of what a thread does after one of its sends has failed
AfterFailure(t, what) ==
    IF t \in sendFailed THEN afterFailure \cup {<<t, what>>} ELSE afterFailure

\* startControlStream is called
StartControlStream ==

    /\ ctlPhase = "initialized"
    /\ ctlPhase' = "starting"
    /\ ctlScript' = StartScript
    /\ UNCHANGED <<ctlErr, ctlSock, peer, client, threadState, threadInterrupted,
                   threadPc, hostOps, unlockedOp, callbacks, sendFailed,
                   afterFailure, released, stopping, enetMutex,
                   invalidateRefFramesEvent, idrFrameRequired>>

\* enet_host_create, and client->intercept = ignoreDisconnectIntercept
ControlEnetHostCreate ==

    /\ ControlAt("enet_host_create")
    /\ \E ok \in BOOLEAN :
         IF ok
           THEN /\ client' = "host"
                /\ ctlScript' = Tail(ctlScript)
                /\ UNCHANGED <<stopping, ctlErr>>
           ELSE /\ client' = client
                /\ stopping' = TRUE
                /\ ctlErr' = -1
                /\ ctlScript' = FailureScript(Head(ctlScript))
    /\ unlockedOp' = UnlockedCall("enet_host_create")
    /\ UNCHANGED <<ctlPhase, ctlSock, peer, threadState, threadInterrupted,
                   threadPc, hostOps, callbacks, sendFailed, afterFailure,
                   released, enetMutex, invalidateRefFramesEvent, idrFrameRequired>>

\* enet_host_connect
ControlEnetHostConnect ==

    /\ ControlAt("enet_host_connect")
    /\ \E ok \in BOOLEAN :
         IF ok
           THEN /\ peer' = "peer"
                /\ ctlScript' = Tail(ctlScript)
                /\ UNCHANGED <<stopping, ctlErr>>
           ELSE /\ peer' = peer
                /\ stopping' = TRUE
                /\ ctlErr' = -1
                /\ ctlScript' = FailureScript(Head(ctlScript))
    /\ unlockedOp' = UnlockedCall("enet_host_connect")
    /\ UNCHANGED <<ctlPhase, ctlSock, client, threadState, threadInterrupted,
                   threadPc, hostOps, callbacks, sendFailed, afterFailure,
                   released, enetMutex, invalidateRefFramesEvent, idrFrameRequired>>

\* serviceEnetHost waits for the connect to complete; on success enet_host_flush
\* and enet_peer_timeout; on failure ETIMEDOUT is returned
ControlServiceConnect ==

    /\ ControlAt("serviceEnetHost")
    /\ \E ok \in BOOLEAN :
         IF ok
           THEN /\ ctlScript' = Tail(ctlScript)
                /\ UNCHANGED <<stopping, ctlErr>>
           ELSE /\ stopping' = TRUE
                /\ ctlErr' = 110
                /\ ctlScript' = FailureScript(Head(ctlScript))
    /\ unlockedOp' = UnlockedCall("serviceEnetHost")
    /\ UNCHANGED <<ctlPhase, ctlSock, peer, client, threadState, threadInterrupted,
                   threadPc, hostOps, callbacks, sendFailed, afterFailure,
                   released, enetMutex, invalidateRefFramesEvent, idrFrameRequired>>

\* connectTcpSocket, on a server before Gen5
ControlConnectTcp ==

    /\ ControlAt("connectTcpSocket")
    /\ \E ok \in BOOLEAN :
         IF ok
           THEN /\ ctlSock' = "connected"
                /\ ctlScript' = Tail(ctlScript)
                /\ UNCHANGED <<stopping, ctlErr>>
           ELSE /\ ctlSock' = ctlSock
                /\ stopping' = TRUE
                /\ ctlErr' = -1
                /\ ctlScript' = FailureScript(Head(ctlScript))
    /\ UNCHANGED <<ctlPhase, peer, client, threadState, threadInterrupted,
                   threadPc, hostOps, unlockedOp, callbacks, sendFailed,
                   afterFailure, released, enetMutex, invalidateRefFramesEvent,
                   idrFrameRequired>>

\* PltCreateThread of one of the three threads
ControlCreateThread ==

    /\ ControlAt("PltCreateThread")
    /\ LET t == Head(ctlScript)[2]
       IN  \E ok \in BOOLEAN :
             IF ok
               THEN /\ threadState' = [threadState EXCEPT ![t] = "running"]
                    /\ ctlScript' = Tail(ctlScript)
                    /\ UNCHANGED <<stopping, ctlErr>>
               ELSE /\ threadState' = threadState
                    /\ stopping' = TRUE
                    /\ ctlErr' = -1
                    /\ ctlScript' = FailureScript(Head(ctlScript))
    /\ UNCHANGED <<ctlPhase, ctlSock, peer, client, threadInterrupted, threadPc,
                   hostOps, unlockedOp, callbacks, sendFailed, afterFailure,
                   released, enetMutex, invalidateRefFramesEvent, idrFrameRequired>>

\* sendMessageAndDiscardReply of START A or START B begins: on ENet under
\* enetMutex, on TCP on ctlSock
ControlSendStartBegin ==

    /\ ControlAt("START")
    /\ IF AppVersionQuad[1] >= 5
         THEN /\ enetMutex = "free"
              /\ enetMutex' = "main"
              /\ hostOps' = hostOps \cup {"main"}
         ELSE UNCHANGED <<enetMutex, hostOps>>
    /\ ctlScript' = <<<<"reply", Head(ctlScript)[2]>>>> \o Tail(ctlScript)
    /\ UNCHANGED <<ctlPhase, ctlErr, ctlSock, peer, client, threadState,
                   threadInterrupted, threadPc, unlockedOp, callbacks, sendFailed,
                   afterFailure, released, stopping, invalidateRefFramesEvent,
                   idrFrameRequired>>

\* sendMessageAndDiscardReply returns
ControlSendStartEnd ==

    /\ ControlAt("reply")
    /\ IF AppVersionQuad[1] >= 5
         THEN /\ enetMutex' = "free"
              /\ hostOps' = hostOps \ {"main"}
         ELSE UNCHANGED <<enetMutex, hostOps>>
    /\ \E ok \in BOOLEAN :
         IF ok
           THEN /\ ctlScript' = Tail(ctlScript)
                /\ UNCHANGED <<stopping, ctlErr>>
           ELSE /\ stopping' = TRUE
                /\ ctlErr' = -1
                /\ ctlScript' = FailureScript(<<"START", Head(ctlScript)[2]>>)
    /\ UNCHANGED <<ctlPhase, ctlSock, peer, client, threadState, threadInterrupted,
                   threadPc, unlockedOp, callbacks, sendFailed, afterFailure,
                   released, invalidateRefFramesEvent, idrFrameRequired>>

\* if (ctlSock != INVALID_SOCKET) shutdownTcpSocket(ctlSock); in startControlStream
\* else ConnectionInterrupted = true
ControlShutdownSocket ==

    /\ ControlAt("shutdownTcpSocket")
    /\ ctlSock' = IF ctlSock # "INVALID_SOCKET" THEN "shutdown" ELSE ctlSock
    /\ ctlScript' = Tail(ctlScript)
    /\ UNCHANGED <<ctlPhase, ctlErr, peer, client, threadState, threadInterrupted,
                   threadPc, hostOps, unlockedOp, callbacks, sendFailed,
                   afterFailure, released, stopping, enetMutex,
                   invalidateRefFramesEvent, idrFrameRequired>>

\* PltInterruptThread
ControlInterruptThread ==

    /\ ControlAt("PltInterruptThread")
    /\ threadInterrupted' = [threadInterrupted EXCEPT ![Head(ctlScript)[2]] = TRUE]
    /\ ctlScript' = Tail(ctlScript)
    /\ UNCHANGED <<ctlPhase, ctlErr, ctlSock, peer, client, threadState, threadPc,
                   hostOps, unlockedOp, callbacks, sendFailed, afterFailure,
                   released, stopping, enetMutex, invalidateRefFramesEvent,
                   idrFrameRequired>>

\* PltJoinThread returning whether or not the thread has returned
ControlJoinThreadNoWait ==

    /\ ControlAt("PltJoinThread")
    /\ threadState' = [threadState EXCEPT ![Head(ctlScript)[2]] =
                                           IF @ = "returned" THEN "joined" ELSE @]
    /\ ctlScript' = Tail(ctlScript)
    /\ UNCHANGED <<ctlPhase, ctlErr, ctlSock, peer, client, threadInterrupted,
                   threadPc, hostOps, unlockedOp, callbacks, sendFailed,
                   afterFailure, released, stopping, enetMutex,
                   invalidateRefFramesEvent, idrFrameRequired>>

\* PltJoinThread returns once the thread has returned
ControlJoinThread ==

    /\ ControlAt("PltJoinThread")
    /\ threadState[Head(ctlScript)[2]] = "returned"
    /\ threadState' = [threadState EXCEPT ![Head(ctlScript)[2]] = "joined"]
    /\ ctlScript' = Tail(ctlScript)
    /\ UNCHANGED <<ctlPhase, ctlErr, ctlSock, peer, client, threadInterrupted,
                   threadPc, hostOps, unlockedOp, callbacks, sendFailed,
                   afterFailure, released, stopping, enetMutex,
                   invalidateRefFramesEvent, idrFrameRequired>>

\* PltCloseThread releases the handle of a thread that was joined
ControlCloseThread ==

    /\ ControlAt("PltCloseThread")
    /\ threadState' = [threadState EXCEPT ![Head(ctlScript)[2]] =
                                           IF @ = "joined" THEN "closed" ELSE @]
    /\ ctlScript' = Tail(ctlScript)
    /\ UNCHANGED <<ctlPhase, ctlErr, ctlSock, peer, client, threadInterrupted,
                   threadPc, hostOps, unlockedOp, callbacks, sendFailed,
                   afterFailure, released, stopping, enetMutex,
                   invalidateRefFramesEvent, idrFrameRequired>>

\* The release at the end of a failure branch of startControlStream: closeSocket
\* if ctlSock is valid, else enet_peer_disconnect_now and enet_host_destroy
ControlRelease ==

    /\ ControlAt("release")
    /\ IF ctlSock # "INVALID_SOCKET"
         THEN /\ ctlSock' = "INVALID_SOCKET"
              /\ UNCHANGED <<peer, client, unlockedOp>>
         ELSE /\ peer' = "NULL"
              /\ client' = "NULL"
              /\ unlockedOp' = UnlockedCall("enet_peer_disconnect_now")
              /\ ctlSock' = ctlSock
    /\ released' = ReleasedNow
    /\ ctlScript' = Tail(ctlScript)
    /\ UNCHANGED <<ctlPhase, ctlErr, threadState, threadInterrupted, threadPc,
                   hostOps, callbacks, sendFailed, afterFailure, stopping,
                   enetMutex, invalidateRefFramesEvent, idrFrameRequired>>

\* enet_peer_reset(peer); peer = NULL
ControlPeerReset ==

    /\ ControlAt("enet_peer_reset")
    /\ peer' = "NULL"
    /\ unlockedOp' = UnlockedCall("enet_peer_reset")
    /\ released' = ReleasedNow
    /\ ctlScript' = Tail(ctlScript)
    /\ UNCHANGED <<ctlPhase, ctlErr, ctlSock, client, threadState,
                   threadInterrupted, threadPc, hostOps, callbacks, sendFailed,
                   afterFailure, stopping, enetMutex, invalidateRefFramesEvent,
                   idrFrameRequired>>

\* stopControlStream: if (peer != NULL) enet_peer_disconnect_now, peer = NULL
ControlPeerDisconnect ==

    /\ ControlAt("enet_peer_disconnect_now")
    /\ IF peer # "NULL"
         THEN /\ peer' = "NULL"
              /\ unlockedOp' = UnlockedCall("enet_peer_disconnect_now")
              /\ released' = ReleasedNow
         ELSE UNCHANGED <<peer, unlockedOp, released>>
    /\ ctlScript' = Tail(ctlScript)
    /\ UNCHANGED <<ctlPhase, ctlErr, ctlSock, client, threadState,
                   threadInterrupted, threadPc, hostOps, callbacks, sendFailed,
                   afterFailure, stopping, enetMutex, invalidateRefFramesEvent,
                   idrFrameRequired>>

\* enet_host_destroy(client); client = NULL; in stopControlStream if client != NULL
ControlHostDestroy ==

    /\ ControlAt("enet_host_destroy")
    /\ IF client # "NULL"
         THEN /\ client' = "NULL"
              /\ unlockedOp' = UnlockedCall("enet_host_destroy")
              /\ released' = ReleasedNow
         ELSE UNCHANGED <<client, unlockedOp, released>>
    /\ ctlScript' = Tail(ctlScript)
    /\ UNCHANGED <<ctlPhase, ctlErr, ctlSock, peer, threadState, threadInterrupted,
                   threadPc, hostOps, callbacks, sendFailed, afterFailure,
                   stopping, enetMutex, invalidateRefFramesEvent, idrFrameRequired>>

\* stopControlStream: if (ctlSock != INVALID_SOCKET) closeSocket
ControlCloseSocket ==

    /\ ControlAt("closeSocket")
    /\ IF ctlSock # "INVALID_SOCKET"
         THEN /\ ctlSock' = "INVALID_SOCKET"
              /\ released' = ReleasedNow
         ELSE UNCHANGED <<ctlSock, released>>
    /\ ctlScript' = Tail(ctlScript)
    /\ UNCHANGED <<ctlPhase, ctlErr, peer, client, threadState, threadInterrupted,
                   threadPc, hostOps, unlockedOp, callbacks, sendFailed,
                   afterFailure, stopping, enetMutex, invalidateRefFramesEvent,
                   idrFrameRequired>>

\* return from startControlStream or stopControlStream
ControlReturn ==

    /\ ControlAt("return")
    /\ ctlScript' = <<>>
    /\ ctlPhase' = IF ctlPhase = "stopping" THEN "stopped"
                   ELSE IF ctlErr = 0 THEN "started" ELSE "startFailed"
    /\ UNCHANGED <<ctlErr, ctlSock, peer, client, threadState, threadInterrupted,
                   threadPc, hostOps, unlockedOp, callbacks, sendFailed,
                   afterFailure, released, stopping, enetMutex,
                   invalidateRefFramesEvent, idrFrameRequired>>

\* stopControlStream is called after startControlStream returned 0: stopping =
\* true, LbqSignalQueueShutdown, PltSetEvent(&invalidateRefFramesEvent)
StopControlStream ==

    /\ ctlPhase = "started"
    /\ ctlPhase' = "stopping"
    /\ stopping' = TRUE
    /\ invalidateRefFramesEvent' = TRUE
    /\ ctlScript' = StopScript
    /\ UNCHANGED <<ctlErr, ctlSock, peer, client, threadState, threadInterrupted,
                   threadPc, hostOps, unlockedOp, callbacks, sendFailed,
                   afterFailure, released, enetMutex, idrFrameRequired>>

\* A listener callback made by a thread
Callback(by, name) == Append(callbacks, <<by, name>>)

\* A thread finds itself interrupted at the test of its loop and returns
ThreadExitsInterrupted(t) ==

    /\ threadState[t] = "running"
    /\ threadPc[t] \in (IF t = "invalidateRefFrames" THEN {"start", "loop"} ELSE {"loop"})
    /\ threadInterrupted[t]
    /\ threadState' = [threadState EXCEPT ![t] = "returned"]
    /\ UNCHANGED <<ctlPhase, ctlScript, ctlErr, ctlSock, peer, client,
                   threadInterrupted, threadPc, hostOps, unlockedOp, callbacks,
                   sendFailed, afterFailure, released, stopping, enetMutex,
                   invalidateRefFramesEvent, idrFrameRequired>>

\* controlReceiveThreadFunc begins: before Gen5 it returns at once
ReceiveThreadStarts ==

    /\ threadState["controlReceive"] = "running"
    /\ threadPc["controlReceive"] = "start"
    /\ IF AppVersionQuad[1] < 5
         THEN /\ threadState' = [threadState EXCEPT !["controlReceive"] = "returned"]
              /\ UNCHANGED threadPc
         ELSE /\ threadPc' = [threadPc EXCEPT !["controlReceive"] = "loop"]
              /\ UNCHANGED threadState
    /\ UNCHANGED <<ctlPhase, ctlScript, ctlErr, ctlSock, peer, client,
                   threadInterrupted, hostOps, unlockedOp, callbacks, sendFailed,
                   afterFailure, released, stopping, enetMutex,
                   invalidateRefFramesEvent, idrFrameRequired>>

\* controlReceiveThreadFunc: PltLockMutex, serviceEnetHost
ReceiveServiceBegin ==

    /\ threadState["controlReceive"] = "running"
    /\ threadPc["controlReceive"] = "loop"
    /\ ~threadInterrupted["controlReceive"]
    /\ enetMutex = "free"
    /\ enetMutex' = "controlReceive"
    /\ hostOps' = hostOps \cup {"controlReceive"}
    /\ released' = ReleasedAfterOp("controlReceive")
    /\ threadPc' = [threadPc EXCEPT !["controlReceive"] = "service"]
    /\ UNCHANGED <<ctlPhase, ctlScript, ctlErr, ctlSock, peer, client, threadState,
                   threadInterrupted, unlockedOp, callbacks, sendFailed,
                   afterFailure, stopping, invalidateRefFramesEvent,
                   idrFrameRequired>>

\* controlReceiveThreadFunc: serviceEnetHost returns, PltUnlockMutex, and the event
\* is handled: nothing or a message without a callback; an error; a rumble
\* message; a termination message; a disconnect event
ReceiveServiceEnd ==

    /\ threadState["controlReceive"] = "running"
    /\ threadPc["controlReceive"] = "service"
    /\ enetMutex' = "free"
    /\ hostOps' = hostOps \ {"controlReceive"}
    /\ \E outcome \in {"none", "error", "rumble", "termination", "disconnect"} :
         /\ outcome # "none" => Len(callbacks) < MaxCallbacks
         /\ callbacks' = IF outcome = "none" THEN callbacks
                         ELSE IF outcome = "rumble"
                                THEN Callback("controlReceive", "rumble")
                                ELSE Callback("controlReceive", "connectionTerminated")
         /\ IF outcome \in {"none", "rumble"}
              THEN /\ threadPc' = [threadPc EXCEPT !["controlReceive"] = "loop"]
                   /\ UNCHANGED threadState
              ELSE /\ threadState' = [threadState EXCEPT !["controlReceive"] = "returned"]
                   /\ UNCHANGED threadPc
    /\ UNCHANGED <<ctlPhase, ctlScript, ctlErr, ctlSock, peer, client,
                   threadInterrupted, unlockedOp, sendFailed, afterFailure,
                   released, stopping, invalidateRefFramesEvent, idrFrameRequired>>

\* lossStatsThreadFunc begins: without the periodic ping it allocates its payload,
\* and on failure calls connectionTerminated(-1) and returns
LossStatsStarts ==

    /\ threadState["lossStats"] = "running"
    /\ threadPc["lossStats"] = "start"
    /\ \/ /\ threadPc' = [threadPc EXCEPT !["lossStats"] = "loop"]
          /\ UNCHANGED <<threadState, callbacks>>
       \/ /\ ~usePeriodicPing                              \* malloc returned NULL
          /\ Len(callbacks) < MaxCallbacks
          /\ callbacks' = Callback("lossStats", "connectionTerminated")
          /\ threadState' = [threadState EXCEPT !["lossStats"] = "returned"]
          /\ UNCHANGED threadPc
    /\ UNCHANGED <<ctlPhase, ctlScript, ctlErr, ctlSock, peer, client,
                   threadInterrupted, hostOps, unlockedOp, sendFailed,
                   afterFailure, released, stopping, enetMutex,
                   invalidateRefFramesEvent, idrFrameRequired>>

\* A thread's send that does not take enetMutex
ThreadSendBeginNoLock(t) ==

    /\ threadState[t] = "running"
    /\ threadPc[t] = IF t = "lossStats" THEN "loop" ELSE "request"
    /\ t = "lossStats" => ~threadInterrupted[t]
    /\ IF AppVersionQuad[1] >= 5
         THEN /\ hostOps' = hostOps \cup {t}
              /\ UNCHANGED enetMutex
         ELSE UNCHANGED <<enetMutex, hostOps>>
    /\ released' = ReleasedAfterOp(t)
    /\ afterFailure' = AfterFailure(t, "send")
    /\ threadPc' = [threadPc EXCEPT ![t] = "sending"]
    /\ UNCHANGED <<ctlPhase, ctlScript, ctlErr, ctlSock, peer, client, threadState,
                   threadInterrupted, unlockedOp, callbacks, sendFailed, stopping,
                   invalidateRefFramesEvent, idrFrameRequired>>

\* A thread's sendMessageAndForget or sendMessageAndDiscardReply begins: on ENet
\* under enetMutex, on TCP on ctlSock
ThreadSendBegin(t) ==

    /\ threadState[t] = "running"
    /\ threadPc[t] = IF t = "lossStats" THEN "loop" ELSE "request"
    /\ t = "lossStats" => ~threadInterrupted[t]
    /\ IF AppVersionQuad[1] >= 5
         THEN /\ enetMutex = "free"
              /\ enetMutex' = t
              /\ hostOps' = hostOps \cup {t}
         ELSE UNCHANGED <<enetMutex, hostOps>>
    /\ released' = ReleasedAfterOp(t)
    /\ afterFailure' = AfterFailure(t, "send")
    /\ threadPc' = [threadPc EXCEPT ![t] = "sending"]
    /\ UNCHANGED <<ctlPhase, ctlScript, ctlErr, ctlSock, peer, client, threadState,
                   threadInterrupted, unlockedOp, callbacks, sendFailed, stopping,
                   invalidateRefFramesEvent, idrFrameRequired>>

\* lossStatsThreadFunc: the send returns; on failure connectionTerminated and
\* return, otherwise sleep and loop
LossStatsSendEnd ==

    /\ threadState["lossStats"] = "running"
    /\ threadPc["lossStats"] = "sending"
    /\ IF AppVersionQuad[1] >= 5
         THEN /\ enetMutex' = "free"
              /\ hostOps' = hostOps \ {"lossStats"}
         ELSE UNCHANGED <<enetMutex, hostOps>>
    /\ \E ok \in BOOLEAN :
         IF ok
           THEN /\ threadPc' = [threadPc EXCEPT !["lossStats"] = "loop"]
                /\ UNCHANGED <<threadState, callbacks, sendFailed, afterFailure>>
           ELSE /\ Len(callbacks) < MaxCallbacks
                /\ callbacks' = Callback("lossStats", "connectionTerminated")
                /\ afterFailure' = AfterFailure("lossStats", "callback")
                /\ sendFailed' = sendFailed \cup {"lossStats"}
                /\ threadState' = [threadState EXCEPT !["lossStats"] = "returned"]
                /\ UNCHANGED threadPc
    /\ UNCHANGED <<ctlPhase, ctlScript, ctlErr, ctlSock, peer, client,
                   threadInterrupted, unlockedOp, released, stopping,
                   invalidateRefFramesEvent, idrFrameRequired>>

\* requestIdrOnDemand: idrFrameRequired = true, PltSetEvent
RequestIdrFrameOnDemand ==

    /\ ctlPhase = "started"
    /\ ~idrFrameRequired
    /\ idrFrameRequired' = TRUE
    /\ invalidateRefFramesEvent' = TRUE
    /\ UNCHANGED <<ctlPhase, ctlScript, ctlErr, ctlSock, peer, client, threadState,
                   threadInterrupted, threadPc, hostOps, unlockedOp, callbacks,
                   sendFailed, afterFailure, released, stopping, enetMutex>>

\* invalidateRefFramesFunc: not interrupted at the test of the loop, it waits for
\* the event
InvalidateThreadWaits ==

    /\ threadState["invalidateRefFrames"] = "running"
    /\ threadPc["invalidateRefFrames"] \in {"start", "loop"}
    /\ ~threadInterrupted["invalidateRefFrames"]
    /\ threadPc' = [threadPc EXCEPT !["invalidateRefFrames"] = "wait"]
    /\ UNCHANGED <<ctlPhase, ctlScript, ctlErr, ctlSock, peer, client, threadState,
                   threadInterrupted, hostOps, unlockedOp, callbacks, sendFailed,
                   afterFailure, released, stopping, enetMutex,
                   invalidateRefFramesEvent, idrFrameRequired>>

\* invalidateRefFramesFunc: PltWaitForEvent returns, PltClearEvent; break if
\* stopping; with idrFrameRequired clear it and call requestIdrFrame; otherwise
\* requestInvalidateReferenceFrames finds no tuple queued and returns
InvalidateThreadWakes ==

    /\ threadState["invalidateRefFrames"] = "running"
    /\ threadPc["invalidateRefFrames"] = "wait"
    /\ invalidateRefFramesEvent
    /\ invalidateRefFramesEvent' = FALSE
    /\ IF stopping
         THEN /\ threadState' = [threadState EXCEPT !["invalidateRefFrames"] = "returned"]
              /\ UNCHANGED <<threadPc, idrFrameRequired>>
         ELSE IF idrFrameRequired
           THEN /\ idrFrameRequired' = FALSE
                /\ threadPc' = [threadPc EXCEPT !["invalidateRefFrames"] = "request"]
                /\ UNCHANGED threadState
           ELSE /\ threadPc' = [threadPc EXCEPT !["invalidateRefFrames"] = "loop"]
                /\ UNCHANGED <<threadState, idrFrameRequired>>
    /\ UNCHANGED <<ctlPhase, ctlScript, ctlErr, ctlSock, peer, client,
                   threadInterrupted, hostOps, unlockedOp, callbacks, sendFailed,
                   afterFailure, released, stopping, enetMutex>>

\* requestIdrFrame's send returns, and a failure ends the thread
InvalidateSendEndReturns ==

    /\ threadState["invalidateRefFrames"] = "running"
    /\ threadPc["invalidateRefFrames"] = "sending"
    /\ IF AppVersionQuad[1] >= 5
         THEN /\ enetMutex' = "free"
              /\ hostOps' = hostOps \ {"invalidateRefFrames"}
         ELSE UNCHANGED <<enetMutex, hostOps>>
    /\ \E ok \in BOOLEAN :
         IF ok
           THEN /\ threadPc' = [threadPc EXCEPT !["invalidateRefFrames"] = "loop"]
                /\ UNCHANGED <<threadState, callbacks, sendFailed, afterFailure>>
           ELSE /\ Len(callbacks) < MaxCallbacks
                /\ callbacks' = Callback("invalidateRefFrames", "connectionTerminated")
                /\ afterFailure' = AfterFailure("invalidateRefFrames", "callback")
                /\ sendFailed' = sendFailed \cup {"invalidateRefFrames"}
                /\ threadState' = [threadState EXCEPT !["invalidateRefFrames"] = "returned"]
                /\ UNCHANGED threadPc
    /\ UNCHANGED <<ctlPhase, ctlScript, ctlErr, ctlSock, peer, client,
                   threadInterrupted, unlockedOp, released, stopping,
                   invalidateRefFramesEvent, idrFrameRequired>>

\* requestIdrFrame: the send returns; on failure connectionTerminated and return
\* from requestIdrFrame, into the loop of invalidateRefFramesFunc
InvalidateSendEnd ==

    /\ threadState["invalidateRefFrames"] = "running"
    /\ threadPc["invalidateRefFrames"] = "sending"
    /\ IF AppVersionQuad[1] >= 5
         THEN /\ enetMutex' = "free"
              /\ hostOps' = hostOps \ {"invalidateRefFrames"}
         ELSE UNCHANGED <<enetMutex, hostOps>>
    /\ threadPc' = [threadPc EXCEPT !["invalidateRefFrames"] = "loop"]
    /\ \E ok \in BOOLEAN :
         IF ok
           THEN UNCHANGED <<callbacks, sendFailed, afterFailure>>
           ELSE /\ Len(callbacks) < MaxCallbacks
                /\ callbacks' = Callback("invalidateRefFrames", "connectionTerminated")
                /\ afterFailure' = AfterFailure("invalidateRefFrames", "callback")
                /\ sendFailed' = sendFailed \cup {"invalidateRefFrames"}
    /\ UNCHANGED <<ctlPhase, ctlScript, ctlErr, ctlSock, peer, client, threadState,
                   threadInterrupted, unlockedOp, released, stopping,
                   invalidateRefFramesEvent, idrFrameRequired>>

\* initializeControlStream has run and startControlStream has not been called
InitControl ==
    /\ ctlPhase = "initialized"
    /\ ctlScript = <<>>
    /\ ctlErr = 0
    /\ ctlSock = "INVALID_SOCKET"
    /\ peer = "NULL"
    /\ client = "NULL"
    /\ threadState = [t \in ControlThreads |-> "notCreated"]
    /\ threadInterrupted = [t \in ControlThreads |-> FALSE]
    /\ threadPc = [t \in ControlThreads |-> "start"]
    /\ hostOps = {}
    /\ unlockedOp = [op |-> "none", running |-> {}]
    /\ callbacks = <<>>
    /\ sendFailed = {}
    /\ afterFailure = {}
    /\ released = [done |-> FALSE, unjoined |-> {}, lateOps |-> {}]

-----------------------------------------------------------------------------
(* controlReceiveThreadFunc and ignoreDisconnectIntercept: the drain of the  *)
(* pending receives after the server's disconnect                           *)

\* What stands in client->intercept
InterceptValues == {"ignoreDisconnectIntercept", "NULL"}

\* The datagrams the server sends on the control stream: a control message that
\* leads to no callback, a rumble message, a termination message, and the ENet
\* disconnect command
FrameKinds == {"message", "rumble", "termination", "disconnect"}

\* The control messages among the datagrams
DataFramesOf(frames) ==
    {frames[i].id : i \in {j \in 1..Len(frames) : frames[j].kind # "disconnect"}}

\* serviceEnetHost on the datagrams that have arrived, oldest first: each datagram
\* is shown to the intercept; ignoreDisconnectIntercept sets disconnectPending for
\* a disconnect command, takes the event away and reports the datagram as handled,
\* and the service goes on to the next datagram. The first datagram left to ENet
\* becomes the event returned (1); with no datagram left the call returns 0.
RECURSIVE ServiceEnetHost(_, _, _, _)
ServiceEnetHost(frames, icpt, pending, seen) ==
    IF frames = <<>>
      THEN [err |-> 0, event |-> [type |-> "NONE", id |-> 0, kind |-> "none"],
            rest |-> <<>>, pending |-> pending, seen |-> seen]
      ELSE IF Head(frames).kind = "disconnect"
             THEN IF icpt = "NULL"
                    THEN [err |-> 1,
                          event |-> [type |-> "DISCONNECT", id |-> 0, kind |-> "none"],
                          rest |-> Tail(frames), pending |-> pending, seen |-> seen]
                    ELSE ServiceEnetHost(Tail(frames), icpt, TRUE,
                                         seen \cup DataFramesOf(Tail(frames)))
             ELSE [err |-> 1,
                   event |-> [type |-> "RECEIVE", id |-> Head(frames).id,
                              kind |-> Head(frames).kind],
                   rest |-> Tail(frames), pending |-> pending, seen |-> seen]

\* serviceEnetHost fails
ServiceFailed ==
    [err |-> -1, event |-> [type |-> "NONE", id |-> 0, kind |-> "none"],
     rest |-> incoming, pending |-> disconnectPending, seen |-> behindDisconnect]

\* What controlReceiveThreadFunc does with the result r of a serviceEnetHost that
\* did not return 0: connectionTerminated(err) and return on an error; the
\* message of a RECEIVE event is handled, and a termination message ends the
\* thread with connectionTerminated; a DISCONNECT event ends it with
\* connectionTerminated(-1)
HandleServiced(r) ==
    /\ drainLog' =
         IF r.err < 0
           THEN Append(drainLog, <<"connectionTerminated", r.err, "error">>)
           ELSE IF r.event.type = "DISCONNECT"
                  THEN Append(drainLog, <<"connectionTerminated", -1, "disconnect">>)
                  ELSE Append(drainLog, <<"RECEIVE", r.event.id, r.event.kind>>)
                         \o (CASE r.event.kind = "rumble" ->
                                    <<<<"rumble", r.event.id, "message">>>>
                               [] r.event.kind = "termination" ->
                                    <<<<"connectionTerminated", r.event.id, "termination">>>>
                               [] OTHER -> <<>>)
    /\ drainPc' = IF r.err < 0 \/ r.event.type = "DISCONNECT"
                     \/ r.event.kind = "termination"
                    THEN "returned" ELSE "poll"

\* The server's next datagram reaches the host's socket
FrameArrives(kind) ==
    /\ drainPc \in {"poll", "drain"}
    /\ nArrived < MaxDrainFrames
    /\ nArrived' = nArrived + 1
    /\ incoming' = Append(incoming, [id |-> nArrived + 1, kind |-> kind])
    /\ UNCHANGED <<intercept, disconnectPending, drainPc, serviceCall, drainLog,
                   behindDisconnect>>

\* controlReceiveThreadFunc begins: before Gen5 it returns at once
DrainThreadStarts ==
    /\ drainPc = "start"
    /\ drainPc' = IF AppVersionQuad[1] < 5 THEN "returned" ELSE "poll"
    /\ UNCHANGED <<intercept, disconnectPending, incoming, serviceCall, drainLog,
                   behindDisconnect, nArrived>>

\* controlReceiveThreadFunc finds itself interrupted at the test of its loop
DrainThreadInterrupted ==
    /\ drainPc = "poll"
    /\ drainPc' = "returned"
    /\ UNCHANGED <<intercept, disconnectPending, incoming, serviceCall, drainLog,
                   behindDisconnect, nArrived>>

\* controlReceiveThreadFunc: serviceEnetHost(client, &event, 0) under enetMutex;
\* on 0 the thread goes on to the drain if disconnectPending, and sleeps otherwise
DisconnectDrainPoll ==
    /\ drainPc = "poll"
    /\ \E r \in {ServiceEnetHost(incoming, intercept, disconnectPending, behindDisconnect),
                 ServiceFailed} :
         /\ serviceCall' = [timeout |-> 0, err |-> r.err]
         /\ incoming' = r.rest
         /\ disconnectPending' = r.pending
         /\ behindDisconnect' = r.seen
         /\ IF r.err = 0
              THEN /\ drainPc' = IF r.pending THEN "drain" ELSE "poll"
                   /\ UNCHANGED drainLog
              ELSE HandleServiced(r)
    /\ UNCHANGED <<intercept, nArrived>>

\* The drain that goes back to polling when the service of 1000 ms returned 0
DisconnectDrainServiceKeepsWaiting ==
    /\ drainPc = "drain"
    /\ \E r \in {ServiceEnetHost(incoming, intercept, disconnectPending, behindDisconnect),
                 ServiceFailed} :
         /\ serviceCall' = [timeout |-> IF intercept # "NULL" THEN 100 ELSE 1000,
                            err |-> r.err]
         /\ incoming' = r.rest
         /\ disconnectPending' = r.pending
         /\ behindDisconnect' = r.seen
         /\ IF r.err = 0
              THEN /\ intercept' = "NULL"
                   /\ drainPc' = "poll"
                   /\ UNCHANGED drainLog
              ELSE HandleServiced(r) /\ UNCHANGED intercept
    /\ UNCHANGED nArrived

\* The drain with the intercept removed before the service of 100 ms has shown
\* that nothing is pending
DisconnectDrainServiceNoDrain ==
    /\ drainPc = "drain"
    /\ \E r \in {ServiceEnetHost(incoming, intercept, disconnectPending, behindDisconnect),
                 ServiceFailed} :
         /\ serviceCall' = [timeout |-> IF intercept # "NULL" THEN 100 ELSE 1000,
                            err |-> r.err]
         /\ incoming' = r.rest
         /\ disconnectPending' = r.pending
         /\ behindDisconnect' = r.seen
         /\ intercept' = "NULL"
         /\ IF r.err = 0
              THEN IF intercept # "NULL"
                     THEN /\ drainPc' = "poll"
                          /\ UNCHANGED drainLog
                     ELSE /\ drainLog' = Append(drainLog,
                                                <<"connectionTerminated", -1, "timeout">>)
                          /\ drainPc' = "returned"
              ELSE HandleServiced(r)
    /\ UNCHANGED nArrived

\* controlReceiveThreadFunc with disconnectPending: serviceEnetHost under enetMutex
\* for 100 ms with the intercept installed and for 1000 ms without; on 0 the
\* intercept is removed if installed, and otherwise connectionTerminated(-1) is
\* called and the thread returns
DisconnectDrainService ==
    /\ drainPc = "drain"
    /\ \E r \in {ServiceEnetHost(incoming, intercept, disconnectPending, behindDisconnect),
                 ServiceFailed} :
         /\ serviceCall' = [timeout |-> IF intercept # "NULL" THEN 100 ELSE 1000,
                            err |-> r.err]
         /\ incoming' = r.rest
         /\ disconnectPending' = r.pending
         /\ behindDisconnect' = r.seen
         /\ IF r.err = 0
              THEN IF intercept # "NULL"
                     THEN /\ intercept' = "NULL"
                          /\ drainPc' = "poll"
                          /\ UNCHANGED drainLog
                     ELSE /\ drainLog' = Append(drainLog,
                                                <<"connectionTerminated", -1, "timeout">>)
                          /\ drainPc' = "returned"
                          /\ UNCHANGED intercept
              ELSE HandleServiced(r) /\ UNCHANGED intercept
    /\ UNCHANGED nArrived

\* startControlStream has installed the intercept and created the receive thread
InitDrain ==
    /\ intercept = "ignoreDisconnectIntercept"
    /\ disconnectPending = FALSE
    /\ incoming = <<>>
    /\ drainPc = "start"
    /\ serviceCall = [timeout |-> 0, err |-> 0]
    /\ drainLog = <<>>
    /\ behindDisconnect = {}
    /\ nArrived = 0

-----------------------------------------------------------------------------
(* encryptControlMessage and decryptControlMessageToV1: the frame of an     *)
(* encrypted control stream, from sendMessageEnet to controlReceiveThreadFunc *)

AES_GCM_TAG_LENGTH == 16

Max(a, b) == IF a >= b THEN a ELSE b

\* A uint16_t and a uint32_t as they lie in the memory of a little-endian build
Le16(x) == <<x % 256, (x \div 256) % 256>>

Le32(x) == <<x % 256, (x \div 256) % 256, (x \div 65536) % 256, (x \div 16777216) % 256>>

\* The uint16_t and the uint32_t that begin at byte i of a buffer
Get16(bytes, i) == bytes[i] + bytes[i + 1] * 256

Get32(bytes, i) ==
    bytes[i] + bytes[i + 1] * 256 + bytes[i + 2] * 65536 + bytes[i + 3] * 16777216

\* iv[0] = (unsigned char)encPacket->seq; the other fifteen bytes of the IV are 0
GcmIv(seq) == seq % 256

\* AES-128-GCM under StreamConfig.remoteInputAesKey stands in the model as a
\* keystream that depends on the IV and the position, added to the plaintext, and
\* a tag that depends on the IV and the whole ciphertext
GcmKeystream(iv, i) == (iv * 31 + i * 17 + 7) % 256

RECURSIVE SumBytes(_)
SumBytes(bytes) == IF bytes = <<>> THEN 0 ELSE Head(bytes) + SumBytes(Tail(bytes))

GcmTag(iv, cipher) ==
    [k \in 1..AES_GCM_TAG_LENGTH |-> (iv * 3 + k * 5 + SumBytes(cipher) + Len(cipher)) % 256]

EVP_EncryptUpdate(iv, plain) ==
    [i \in 1..Len(plain) |-> (plain[i] + GcmKeystream(iv, i)) % 256]

EVP_DecryptUpdate(iv, cipher) ==
    [i \in 1..Len(cipher) |-> (cipher[i] + 256 - GcmKeystream(iv, i)) % 256]

\* The calls of decryptControlMessageToV1 that can fail
GcmDecryptSteps == { "init", "ivlen", "keyiv", "malloc", "update", "settag", "final" }

\* The ENet packet of sendMessageEnet on an encrypted control stream when
\* encryptControlMessage has run: the encrypted header (type 0x0001, length, seq),
\* the tag, and the encrypted V2 header and payload. When EVP_CTRL_GCM_GET_TAG
\* failed the sixteen bytes of the tag are what enet_packet_create left there.
EncryptedFrame(ptype, body, seq, failing, junk) ==
    LET plain == Le16(ptype) \o Le16(Len(body)) \o body
        cipher == EVP_EncryptUpdate(GcmIv(seq), plain)
        tag == IF failing = "gettag" THEN [k \in 1..AES_GCM_TAG_LENGTH |-> junk]
               ELSE GcmTag(GcmIv(seq), cipher)
    IN  Le16(1) \o Le16(4 + AES_GCM_TAG_LENGTH + 4 + Len(body)) \o Le32(seq)
          \o tag \o cipher

\* The bytes decryptControlMessageToV1 reads at positions from..to of the packet;
\* beyond the end of the packet it reads what lies behind it in memory
ReadBytes(data, from, to, junk) ==
    [i \in 1..(to - from + 1) |-> IF from + i - 1 <= Len(data) THEN data[from + i - 1] ELSE junk]

\* decryptControlMessageToV1 with the V2 header left in place
DecryptControlMessageToV1NoShift(data, failing, junk, uninit) ==
    LET length == Get16(data, 3)
        iv == GcmIv(Get32(data, 5))
        plaintextLength == length - 4 - AES_GCM_TAG_LENGTH
        tag == ReadBytes(data, 9, 8 + AES_GCM_TAG_LENGTH, junk)
        cipher == ReadBytes(data, 9 + AES_GCM_TAG_LENGTH, 4 + length, junk)
        plain == EVP_DecryptUpdate(iv, cipher)
        failed == [ret |-> FALSE, packet |-> <<>>, packetLength |-> uninit, readPast |-> 0,
                   decrypted |-> FALSE]
    IN  IF length < 4 + AES_GCM_TAG_LENGTH + 4 THEN failed
        ELSE IF failing \in {"init", "ivlen", "keyiv", "malloc"} THEN failed
        ELSE IF failing = "update"
          THEN [failed EXCEPT !.readPast = Max(0, 4 + length - Len(data)), !.decrypted = TRUE]
        ELSE IF failing = "settag"
          THEN [ret |-> TRUE, packet |-> plain, packetLength |-> uninit,
                readPast |-> Max(0, 4 + length - Len(data)), decrypted |-> TRUE]
        ELSE IF failing = "final" \/ tag # GcmTag(iv, cipher)
          THEN [failed EXCEPT !.readPast = Max(0, 4 + length - Len(data)), !.decrypted = TRUE]
        ELSE [ret |-> TRUE, packet |-> plain, packetLength |-> plaintextLength - 2,
              readPast |-> Max(0, 4 + length - Len(data)), decrypted |-> TRUE]

\* decryptControlMessageToV1 on the packet data (at least the eight bytes of the
\* encrypted header): ret, *packet, *packetLength, the number of bytes it read
\* behind the end of the packet, and whether EVP_DecryptUpdate ran. A failed
\* EVP_CTRL_GCM_SET_TAG sets the bool ret to -1, which is true, and leaves
\* *packetLength as the caller declared it.
DecryptControlMessageToV1(data, failing, junk, uninit) ==
    LET length == Get16(data, 3)
        iv == GcmIv(Get32(data, 5))
        plaintextLength == length - 4 - AES_GCM_TAG_LENGTH
        tag == ReadBytes(data, 9, 8 + AES_GCM_TAG_LENGTH, junk)
        cipher == ReadBytes(data, 9 + AES_GCM_TAG_LENGTH, 4 + length, junk)
        plain == EVP_DecryptUpdate(iv, cipher)
        failed == [ret |-> FALSE, packet |-> <<>>, packetLength |-> uninit, readPast |-> 0,
                   decrypted |-> FALSE]
    IN  IF length < 4 + AES_GCM_TAG_LENGTH + 4 THEN failed
        ELSE IF failing \in {"init", "ivlen", "keyiv", "malloc"} THEN failed
        ELSE IF failing = "update"
          THEN [failed EXCEPT !.readPast = Max(0, 4 + length - Len(data)), !.decrypted = TRUE]
        ELSE IF failing = "settag"
          THEN [ret |-> TRUE, packet |-> plain, packetLength |-> uninit,
                readPast |-> Max(0, 4 + length - Len(data)), decrypted |-> TRUE]
        ELSE IF failing = "final" \/ tag # GcmTag(iv, cipher)
          THEN [failed EXCEPT !.readPast = Max(0, 4 + length - Len(data)), !.decrypted = TRUE]
        ELSE [ret |-> TRUE,
              packet |-> SubSeq(plain, 1, 2) \o SubSeq(plain, 5, plaintextLength),
              packetLength |-> plaintextLength - 2,
              readPast |-> Max(0, 4 + length - Len(data)), decrypted |-> TRUE]

\* The message types, payloads and sequence numbers of the frames of the model
CodecTypes == {267, 265, 513}

CodecPayloads == UNION { [1..n -> {0, 255}] : n \in 0..MaxCodecPayload }

CodecSeqs == {0, 255, 256, 16777215}

\* What lies in memory that the program has not written: a byte, and the int
\* packetLength of controlReceiveThreadFunc
JunkBytes == {0, 255}

UninitLengths == {2, 6}

\* A packet with its length field replaced
WithLength(frame, length) == SubSeq(frame, 1, 2) \o Le16(length) \o SubSeq(frame, 5, Len(frame))

\* What the server or anyone on the path can make of a frame: the frame itself,
\* the frame cut short, the frame with another declared length, with another
\* tag, and its message without the encrypted header
ArrivingPackets(frame, msg) ==
    {frame}
      \cup {SubSeq(frame, 1, n) : n \in {1, 7, 8, 23, Len(frame) - 1}}
      \cup {WithLength(frame, l) : l \in {0, 23, Get16(frame, 3) - 1, Get16(frame, 3) + 1}}
      \cup {WithLength(SubSeq(frame, 1, 8), 24)}
      \cup {[frame EXCEPT ![9] = (@ + 1) % 256]}
      \cup {Le16(msg.type) \o msg.body}

NoResult ==
    [outcome |-> "none", type |-> 0, packet |-> <<>>, packetLength |-> 0, readPast |-> 0,
     decrypted |-> FALSE, dataFrees |-> 0, failing |-> "none"]

\* sendMessageEnet(ptype, paylen, payload) on an encrypted control stream, when
\* currentEnetSequenceNumber has reached seq, up to the return of
\* encryptControlMessage: the packet is destroyed when it reports failure and
\* goes on to enet_peer_send otherwise
CodecEncrypt(ptype, body, seq, failing, junk) ==
    /\ codecPc = "idle"
    /\ encryptedControlStream
    /\ codecMsg' = [type |-> ptype, body |-> body, seq |-> seq]
    /\ LET ret == encryptControlMessage(failing)
       IN  /\ codecSend' = [failing |-> failing, ret |-> ret, handed |-> ret]
           /\ codecFrame' = IF ret THEN EncryptedFrame(ptype, body, seq, failing, junk)
                            ELSE <<>>
           /\ codecPc' = IF ret THEN "framed" ELSE "done"
    /\ UNCHANGED <<codecData, codecResult>>

\* A packet reaches the client
CodecDeliver(data) ==
    /\ codecPc = "framed"
    /\ codecData' = data
    /\ codecPc' = "arrived"
    /\ UNCHANGED <<codecMsg, codecFrame, codecSend, codecResult>>

\* controlReceiveThreadFunc on an ENET_EVENT_TYPE_RECEIVE with this packet, from
\* the test of its length to the handling of the message
CodecReceive(failing, junk, uninit) ==
    /\ codecPc = "arrived"
    /\ codecPc' = "done"
    /\ LET dataLength == Len(codecData)
           outer == Get16(codecData, 1)
           r == DecryptControlMessageToV1(codecData, failing, junk, uninit)
           discarded == [NoResult EXCEPT !.outcome = "discarded", !.dataFrees = 1,
                                         !.failing = failing]
       IN  IF dataLength < 2
             THEN codecResult' = discarded /\ UNCHANGED recvVars
           ELSE IF encryptedControlStream /\ outer = 1
             THEN IF dataLength < 8
                    THEN codecResult' = discarded /\ UNCHANGED recvVars
                  ELSE IF ~r.ret
                    THEN /\ codecResult' = [discarded EXCEPT !.readPast = r.readPast,
                                                             !.decrypted = r.decrypted]
                         /\ UNCHANGED recvVars
                  ELSE /\ codecResult' =
                            [outcome |-> "dispatched", type |-> Get16(r.packet, 1),
                             packet |-> r.packet, packetLength |-> r.packetLength,
                             readPast |-> r.readPast, decrypted |-> TRUE,
                             dataFrees |-> 1, failing |-> failing]
                       /\ ReceiveMessage(Get16(r.packet, 1),
                                         ReadBytes(r.packet, 3, r.packetLength, junk), TRUE)
           ELSE \* not an encrypted frame. On an encrypted stream ctlHdr still points
                \* into the packet, which enet_packet_destroy frees before the
                \* message is handled and free(ctlHdr) frees again: the bytes read
                \* are those of the packet or whatever has taken their place
                \E freed \in IF encryptedControlStream
                                THEN {codecData, [i \in 1..dataLength |-> junk]}
                                ELSE {codecData} :
                    /\ codecResult' =
                         [outcome |-> "dispatched", type |-> Get16(freed, 1),
                          packet |-> freed, packetLength |-> dataLength, readPast |-> 0,
                          decrypted |-> FALSE,
                          dataFrees |-> IF encryptedControlStream THEN 2 ELSE 1,
                          failing |-> failing]
                    /\ ReceiveMessage(Get16(freed, 1), SubSeq(freed, 3, dataLength),
                                      ~encryptedControlStream)
    /\ UNCHANGED <<codecMsg, codecFrame, codecSend, codecData>>

\* No control message has been sent
InitCodec ==
    /\ codecPc = "idle"
    /\ codecMsg = [type |-> 513, body |-> <<>>, seq |-> 0]
    /\ codecFrame = <<>>
    /\ codecSend = [failing |-> "none", ret |-> FALSE, handed |-> FALSE]
    /\ codecData = <<>>
    /\ codecResult = NoResult

-----------------------------------------------------------------------------
(* The loss statistics thread and the loss counter *)

LOSS_REPORT_INTERVAL_MS == 50

\* BbPut64 of a value below 2^32 in little-endian order
Le64(x) == Le32(x) \o <<0, 0, 0, 0>>

\* The payload lossStatsThreadFunc constructs at the top of its loop
LossStatsPayload(lossCount, goodFrame) ==
    Le32(lossCount) \o Le32(LOSS_REPORT_INTERVAL_MS) \o Le32(1000) \o Le64(goodFrame)
        \o Le32(0) \o Le32(0) \o Le32(20)

\* char periodicPingPayload[8] after BbPut16(4) and BbPut32(0): the two bytes
\* behind them are never written
PeriodicPingPayload(uninit) == Le16(4) \o Le32(0) \o uninit

\* The values of two bytes of the stack that were never written
UninitPairs == { <<0, 0>>, <<0, 255>>, <<255, 255>> }

\* The <<lastReceivedPacket, nextReceivedPacket>> reported to connectionLostPackets
LostRanges == { <<0, 2>>, <<2, 5>> }

\* The sum of the loss counts of the messages sent
RECURSIVE SumLossCounts(_)
SumLossCounts(sent) ==
    IF sent = <<>> THEN 0
    ELSE Get32(Head(sent).body, 1) + SumLossCounts(Tail(sent))

\* lossStatsThreadFunc up to its loop: the ping payload is written once; the
\* loss statistics payload is allocated, and a failed malloc ends the thread
\* with connectionTerminated(-1)
LossStatsThreadStarts(uninit) ==
    /\ statsPc = "notStarted"
    /\ IF usePeriodicPing
         THEN /\ periodicPingPayload' = PeriodicPingPayload(uninit)
              /\ statsPc' = "top"
              /\ UNCHANGED statsTerminated
         ELSE /\ \E allocated \in BOOLEAN :
                   IF allocated
                     THEN statsPc' = "top" /\ UNCHANGED statsTerminated
                     ELSE /\ statsPc' = "returned"
                          /\ statsTerminated' = Append(statsTerminated, "-1")
              /\ UNCHANGED periodicPingPayload
    /\ UNCHANGED <<lossStatsPayload, lossCountSinceLastReport, statsSent, lostPc, lostSum,
                   lossAdded, lossAtEmission, nLost>>

\* The test of the loop finds the thread interrupted: leave
LossStatsInterrupted ==
    /\ statsPc = "top"
    /\ statsPc' = "returned"
    /\ UNCHANGED <<periodicPingPayload, lossStatsPayload, lossCountSinceLastReport,
                   statsSent, statsTerminated, lostPc, lostSum, lossAdded, lossAtEmission,
                   nLost>>

\* The top of the loop in loss statistics mode: construct the payload from
\* lossCountSinceLastReport and lastGoodFrame
LossStatsConstruct ==
    /\ statsPc = "top"
    /\ ~usePeriodicPing
    /\ Len(statsSent) < MaxStatsSends
    /\ lossStatsPayload' = LossStatsPayload(lossCountSinceLastReport, lastGoodFrame)
    /\ lossAtEmission' = [lossAtEmission EXCEPT !.pending = lossAdded]
    /\ statsPc' = "send"
    /\ UNCHANGED <<periodicPingPayload, lossCountSinceLastReport, statsSent,
                   statsTerminated, lostPc, lostSum, lossAdded, nLost>>

\* The top of the loop in periodic ping mode
LossStatsPing ==
    /\ statsPc = "top"
    /\ usePeriodicPing
    /\ Len(statsSent) < MaxStatsSends
    /\ statsPc' = "send"
    /\ UNCHANGED <<periodicPingPayload, lossStatsPayload, lossCountSinceLastReport,
                   statsSent, statsTerminated, lostPc, lostSum, lossAdded, lossAtEmission,
                   nLost>>

\* sendMessageAndForget of the message of the mode; a failure ends the thread
\* with connectionTerminated(LastSocketFail()), a ping that was sent is followed
\* by the sleep, a loss statistics message by the clearing of the counter
LossStatsSend(sendOk) ==
    /\ statsPc = "send"
    /\ IF sendOk
         THEN /\ statsSent' =
                   Append(statsSent,
                          IF usePeriodicPing
                            THEN [type |-> 512, body |-> periodicPingPayload]
                            ELSE [type |-> packetTypes(IDX_LOSS_STATS),
                                  body |-> lossStatsPayload])
              /\ statsPc' = IF usePeriodicPing THEN "top" ELSE "clear"
              /\ lossAtEmission' = [lossAtEmission EXCEPT !.read = lossAtEmission.pending,
                                                          !.send = lossAdded]
              /\ UNCHANGED statsTerminated
         ELSE /\ statsPc' = "returned"
              /\ statsTerminated' = Append(statsTerminated, "LastSocketFail")
              /\ UNCHANGED <<statsSent, lossAtEmission>>
    /\ UNCHANGED <<periodicPingPayload, lossStatsPayload, lossCountSinceLastReport,
                   lostPc, lostSum, lossAdded, nLost>>

\* lossCountSinceLastReport = 0, then the sleep
LossStatsClear ==
    /\ statsPc = "clear"
    /\ lossCountSinceLastReport' = 0
    /\ statsPc' = "top"
    /\ UNCHANGED <<periodicPingPayload, lossStatsPayload, statsSent, statsTerminated,
                   lostPc, lostSum, lossAdded, lossAtEmission, nLost>>

\* connectionLostPackets(lastReceivedPacket, nextReceivedPacket), called by the
\* thread that receives the video, takes no lock: the += is a load and an
\* addition here and a store in ConnectionLostPacketsStore
ConnectionLostPacketsLoad(lastReceivedPacket, nextReceivedPacket) ==
    /\ lostPc = "idle"
    /\ nLost < MaxLossCalls
    /\ nLost' = nLost + 1
    /\ lostSum' = [amount |-> (nextReceivedPacket - lastReceivedPacket) - 1,
                   sum |-> lossCountSinceLastReport +
                             (nextReceivedPacket - lastReceivedPacket) - 1]
    /\ lostPc' = "loaded"
    /\ UNCHANGED <<statsPc, periodicPingPayload, lossStatsPayload,
                   lossCountSinceLastReport, statsSent, statsTerminated, lossAdded,
                   lossAtEmission>>

ConnectionLostPacketsStore ==
    /\ lostPc = "loaded"
    /\ lossCountSinceLastReport' = lostSum.sum
    /\ lossAdded' = lossAdded + lostSum.amount
    /\ lostPc' = "idle"
    /\ UNCHANGED <<statsPc, periodicPingPayload, lossStatsPayload, statsSent,
                   statsTerminated, lostSum, lossAtEmission, nLost>>

\* initializeControlStream: lossCountSinceLastReport = 0; no thread runs
InitStats ==
    /\ statsPc = "notStarted"
    /\ periodicPingPayload = <<>>
    /\ lossStatsPayload = <<>>
    /\ lossCountSinceLastReport = 0
    /\ statsSent = <<>>
    /\ statsTerminated = <<>>
    /\ lostPc = "idle"
    /\ lostSum = [amount |-> 0, sum |-> 0]
    /\ lossAdded = 0
    /\ lossAtEmission = [pending |-> 0, read |-> 0, send |-> 0]
    /\ nLost = 0
-----------------------------------------------------------------------------
(* The record of what the input queue accepted *)

\* The step appends to accepted the packet it appended to packetQueue, if any:
\* LbqOfferQueueItem adds at the tail and nothing else adds to the queue
AcceptedFollowsQueue ==
    accepted' = IF Len(packetQueue') > Len(packetQueue)
                  THEN Append(accepted, packetQueue'[Len(packetQueue')])
                  ELSE accepted

\* initializeInputStream: the queue is empty
InitOrder == accepted = <<>>

-----------------------------------------------------------------------------
(* The receive thread's use of enetMutex *)

\* Where controlReceiveThreadFunc holds enetMutex: in the poll, in the service of
\* a pending disconnect, and in decryptControlMessageToV1
RecvHoldingPcs == {"poll", "drain", "decrypt"}

\* PltLockMutex(&enetMutex) of the receive thread, before the poll, before the
\* service of a pending disconnect and before the decryption
ReceiveLock ==
    /\ recvLockPc \in {"lockPoll", "lockDrain", "lockDecrypt"}
    /\ enetMutex = "free"
    /\ enetMutex' = "controlReceive"
    /\ recvLockPc' = CASE recvLockPc = "lockPoll" -> "poll"
                       [] recvLockPc = "lockDrain" -> "drain"
                       [] recvLockPc = "lockDecrypt" -> "decrypt"
    /\ UNCHANGED <<currentEnetSequenceNumber, sendPc, enetPacket, wire, nSends>>

\* The unlock that is missing after a failed decryption
ReceiveUnlockNotOnFailure ==
    /\ recvLockPc \in RecvHoldingPcs
    /\ \E next \in CASE recvLockPc = "poll" -> {"pending", "sleep", "failed", "event"}
                     [] recvLockPc = "drain" -> {"top", "timeout", "failed", "event"}
                     [] recvLockPc = "decrypt" -> {"top", "handle"} :
         /\ recvLockPc' = next
         /\ enetMutex' = IF recvLockPc = "decrypt" /\ next = "top" THEN enetMutex
                         ELSE "free"
    /\ UNCHANGED <<currentEnetSequenceNumber, sendPc, enetPacket, wire, nSends>>

\* What the receive thread does under enetMutex returns and the thread unlocks.
\* After the poll: a disconnect is pending and no event came, or no event came,
\* or an error, or an event. After the service of a pending disconnect: the
\* intercept is removed and the loop continues, or the timeout has expired, or
\* an error, or an event. After the decryption: it failed and the packet is
\* discarded, or the message is handled.
ReceiveUnlock ==
    /\ recvLockPc \in RecvHoldingPcs
    /\ \E next \in CASE recvLockPc = "poll" -> {"pending", "sleep", "failed", "event"}
                     [] recvLockPc = "drain" -> {"top", "timeout", "failed", "event"}
                     [] recvLockPc = "decrypt" -> {"top", "handle"} :
         recvLockPc' = next
    /\ enetMutex' = "free"
    /\ UNCHANGED <<currentEnetSequenceNumber, sendPc, enetPacket, wire, nSends>>

\* The steps of the receive thread between its critical sections: the test of
\* the loop, which may find the thread interrupted; the way to the service of a
\* pending disconnect; the sleep of 10 ms; connectionTerminated after the timeout,
\* an error or a disconnect event, and the return; the look at an event, which
\* is a disconnect, a runt, an encrypted frame or a message to handle; the
\* handling of a message, ending in the rumble callback or in connectionTerminated
\* and the return.  recvLockDone keeps the last sleep, callback or exit of the
\* thread and whether the thread held enetMutex then.
ReceiveUnlocked ==
    /\ recvLockPc \in {"top", "pending", "sleep", "timeout", "failed", "event", "handle"}
    /\ \E next \in CASE recvLockPc = "top" -> {"lockPoll", "returned"}
                     [] recvLockPc = "pending" -> {"lockDrain"}
                     [] recvLockPc = "sleep" -> {"top"}
                     [] recvLockPc \in {"timeout", "failed"} -> {"returned"}
                     [] recvLockPc = "event" ->
                          IF encryptedControlStream
                            THEN {"returned", "top", "lockDecrypt", "handle"}
                            ELSE {"returned", "top", "handle"}
                     [] recvLockPc = "handle" -> {"top", "returned"} :
         /\ recvLockPc' = next
         /\ recvLockDone' =
              IF recvLockPc = "sleep" \/ next = "returned" \/ recvLockPc = "handle"
                THEN [op |-> CASE recvLockPc = "sleep" -> "sleep"
                               [] recvLockPc = "top" -> "exit"
                               [] OTHER -> "callback",
                      holding |-> enetMutex = "controlReceive"]
                ELSE recvLockDone
    /\ UNCHANGED sendVars

\* The receive thread has been created
InitRecvLock ==
    /\ recvLockPc = "top"
    /\ recvLockDone = [op |-> "none", holding |-> FALSE]
-----------------------------------------------------------------------------
(* The requests the invalidation worker has not answered *)

\* The request of requestIdrOnDemand, among the tuples of connectionDetectedFrameLoss
IdrOnDemand == <<0, 0>>

\* The range of an InvalidateRefFrames message covers the tuple
Covers(range, tuple) == range[1] <= tuple[1] /\ tuple[2] <= range[2]

\* owed holds the requests made of which no answer has been dispatched since: a
\* call of connectionDetectedFrameLoss adds its tuple and a call of
\* requestIdrOnDemand adds IdrOnDemand when it starts; the dispatch of an IDR
\* request answers every request, the dispatch of a range the tuples it covers.
\* nRequests counts the calls.
OwedFollowsWorker ==
    /\ owed' = IF irfPc = "sendIdr" /\ irfPc' = "sending"
                 THEN {}
               ELSE IF irfPc = "sendRange" /\ irfPc' = "sending"
                 THEN { request \in owed : ~Covers(payload, request) }
               ELSE IF ~lossCall.active /\ lossCall'.active
                 THEN owed \cup { <<Min(lossFrontier + 1, MaxFrame), lossFrontier'>> }
               ELSE IF ~idrCall /\ idrCall'
                 THEN owed \cup { IdrOnDemand }
               ELSE owed
    /\ nRequests' = IF (~lossCall.active /\ lossCall'.active) \/ (~idrCall /\ idrCall')
                      THEN nRequests + 1
                      ELSE nRequests

InitOwed ==
    /\ owed = {}
    /\ nRequests = 0
-----------------------------------------------------------------------------
(* The specifications *)

\* The state after initializeControlStream and initializeInputStream
InitSession ==
    /\ lastSeenFrame = 0
    /\ InitSend
    /\ InitInval
    /\ InitQuality
    /\ InitInput
    /\ InitRecv
    /\ InitCallers
    /\ InitControl
    /\ InitDrain
    /\ InitCodec
    /\ InitStats
    /\ InitOrder
    /\ InitRecvLock
    /\ InitOwed

\* The control stream of a Gen7 server, with and without encryption
SendVersions == { <<7, 1, 415>>, <<7, 1, 431>> }

outsideSend == <<AppVersionQuad, lastSeenFrame, invalVars, qualityVars, inputVars,
                 recvVars,
                 callerVars,
                 sessionVars, drainVars,
    codecVars,
    statsVars,
    orderVars,
    recvLockVars,
    owedVars>>

InitSendSpec ==
    /\ AppVersionQuad \in SendVersions
    /\ InitSession

NextSend ==
    \/ \E t \in SenderThreads : nSends < MaxSends /\ SendCreate(t)
                                  /\ UNCHANGED outsideSend
    \/ \E t \in SenderThreads : SendLockSeq(t) /\ UNCHANGED outsideSend
    \/ \E t \in SenderThreads : SendSeqAndEncrypt(t) /\ UNCHANGED outsideSend
    \/ \E t \in SenderThreads : SendLockSend(t) /\ UNCHANGED outsideSend
    \/ \E t \in SenderThreads : SendPeerSend(t) /\ UNCHANGED outsideSend
    \/ \E t \in SenderThreads : SendLockFlush(t) /\ UNCHANGED outsideSend
    \/ \E t \in SenderThreads : SendFlush(t) /\ UNCHANGED outsideSend

SpecSend == InitSendSpec /\ [][NextSend]_vars

\* A TCP profile and a profile that sends on the reliable peer
InvalVersions == { <<4, 0, 0>>, <<7, 1, 431>> }

outsideInval == <<AppVersionQuad, lastSeenFrame, sendVars, qualityVars, inputVars,
                  recvVars,
                  callerVars,
                  sessionVars, drainVars,
    codecVars,
    statsVars,
    orderVars,
    recvLockVars,
    owedVars>>

InitInvalSpec ==
    /\ AppVersionQuad \in InvalVersions
    /\ InitSession

NextInval ==
    \/ DetectFrameLoss /\ UNCHANGED outsideInval
    \/ DetectFrameLossSetEvent /\ UNCHANGED outsideInval
    \/ RequestIdrOnDemand /\ UNCHANGED outsideInval
    \/ RequestIdrOnDemandSetEvent /\ UNCHANGED outsideInval
    \/ IrfWait /\ UNCHANGED outsideInval
    \/ IrfClearEvent /\ UNCHANGED outsideInval
    \/ IrfCheckStopping /\ UNCHANGED outsideInval
    \/ IrfCheckIdr /\ UNCHANGED outsideInval
    \/ IrfDrain /\ UNCHANGED outsideInval
    \/ IrfClearIdr /\ UNCHANGED outsideInval
    \/ IrfSendIdr /\ UNCHANGED outsideInval
    \/ IrfFirstPoll /\ UNCHANGED outsideInval
    \/ IrfPoll /\ UNCHANGED outsideInval
    \/ IrfSendRange /\ UNCHANGED outsideInval
    \/ IrfSendReturns /\ UNCHANGED outsideInval

SpecInval == InitInvalSpec /\ [][NextInval]_vars


\* The quality window alone
QualityVersions == { <<7, 1, 431>> }

outsideQuality == <<AppVersionQuad, sendVars, invalVars, inputVars, recvVars,
                    callerVars,
                    sessionVars, drainVars,
    codecVars,
    statsVars,
    orderVars,
    recvLockVars,
    owedVars>>

InitQualitySpec ==
    /\ AppVersionQuad \in QualityVersions
    /\ InitSession

NextQuality ==
    \/ Tick /\ UNCHANGED outsideQuality
    \/ ReceivedCompleteFrame /\ UNCHANGED outsideQuality
    \/ \E frameIndex \in lastSeenFrame..Min(lastSeenFrame + 2, MaxFrameIndex) :
         SawFrame(frameIndex) /\ UNCHANGED outsideQuality

SpecQuality == InitQualitySpec /\ [][NextQuality]_vars

\* The input stream: a Gen4 server (TCP socket, no haptics) and a server with an
\* encrypted control stream
InputVersions == { <<4, 0, 0>>, <<7, 1, 431>> }

outsideInput == <<AppVersionQuad, lastSeenFrame, sendVars, invalVars, qualityVars,
                  recvVars,
                  callerVars,
                  sessionVars, drainVars,
    codecVars,
    statsVars,
    orderVars,
    recvLockVars,
    owedVars>>

InitInputSpec ==
    /\ AppVersionQuad \in InputVersions
    /\ InitSession

NextInput ==
    \/ StartInputThread /\ UNCHANGED outsideInput
    \/ StartInputInitialized /\ UNCHANGED outsideInput
    \/ StartInputEnableHaptics /\ UNCHANGED outsideInput
    \/ \E d \in RelMoves :
         /\ nInputCalls < MaxInputCalls
         /\ LiSendMouseMoveEvent(d[1], d[2])
         /\ UNCHANGED outsideInput
    \/ /\ nInputCalls < MaxInputCalls
       /\ LiSendMousePositionEvent(nInputCalls + 1, nInputCalls + 1, 1280, 720)
       /\ UNCHANGED outsideInput
    \/ /\ nInputCalls < MaxInputCalls
       /\ LiSendMouseButtonEvent(7, 1)
       /\ UNCHANGED outsideInput
    \/ \E c \in ControllerStates :
         /\ nInputCalls < MaxInputCalls
         /\ LiSendMultiControllerEvent(0, 1, c[1], <<c[2], 0>>, <<0, 0, 0, 0>>)
         /\ UNCHANGED outsideInput
    \/ InputWait /\ UNCHANGED outsideInput
    \/ InputBatch /\ UNCHANGED outsideInput
    \/ InputSend /\ UNCHANGED outsideInput

SpecInput == InitInputSpec /\ [][NextInput]_vars

\* The input stream fed by a pointer that moves one step per report, long enough
\* to fill the queue, up to the first send of inputSendThreadProc
outsideAbsMouse == <<AppVersionQuad, lastSeenFrame, sendVars, invalVars, qualityVars,
                     recvVars,
                     callerVars,
                     sessionVars, drainVars,
    codecVars,
    statsVars,
    orderVars,
    recvLockVars,
    owedVars>>

NextAbsMouse ==
    \/ StartInputThread /\ UNCHANGED outsideAbsMouse
    \/ StartInputInitialized /\ UNCHANGED outsideAbsMouse
    \/ StartInputEnableHaptics /\ UNCHANGED outsideAbsMouse
    \/ /\ nInputCalls < MaxAbsCalls
       /\ LiSendMousePositionEvent(nInputCalls + 1, nInputCalls + 1, 1280, 720)
       /\ UNCHANGED outsideAbsMouse
    \/ /\ inputSent = <<>>
       /\ InputWait
       /\ UNCHANGED outsideAbsMouse
    \/ InputBatch /\ UNCHANGED outsideAbsMouse
    \/ InputSend /\ UNCHANGED outsideAbsMouse

SpecAbsMouse == InitInputSpec /\ [][NextAbsMouse]_vars

\* The input stream fed by key events only. The key codes are the modifier keys,
\* a letter, the key after right alt, and key codes with bits above the low byte
\* (0x80A0 and 0x80A1 as shorts, and 0x015B); the modifier bytes are no flag, each
\* of the four flags, all four, the other four bits, and all eight; the key
\* action is KEY_ACTION_DOWN.
MaxKeyCalls == 1

KeyCodes == {65, 91, 92, 160, 161, 162, 163, 164, 165, 166, -32608, -32607, 347}

ModifierBytes == {0, 1, 2, 4, 8, 15, 240, 255}

KeyActions == {3}

outsideKeyboard == <<AppVersionQuad, lastSeenFrame, sendVars, invalVars, qualityVars,
                     recvVars,
                     sessionVars, drainVars,
    codecVars,
    statsVars,
    orderVars,
    recvLockVars,
    owedVars>>

NextKeyboard ==
    \/ StartInputThread /\ UNCHANGED <<outsideKeyboard, callerVars>>
    \/ StartInputInitialized /\ UNCHANGED <<outsideKeyboard, callerVars>>
    \/ StartInputEnableHaptics /\ UNCHANGED <<outsideKeyboard, callerVars>>
    \/ /\ inputCall.n < MaxKeyCalls
       /\ \E keyCode \in KeyCodes, keyAction \in KeyActions,
             modifiers \in ModifierBytes :
            LiSendKeyboardEvent(keyCode, keyAction, modifiers)
       /\ UNCHANGED outsideKeyboard
    \/ InputWait /\ UNCHANGED <<outsideKeyboard, callerVars>>
    \/ InputSend /\ UNCHANGED <<outsideKeyboard, callerVars>>

SpecKeyboard == InitInputSpec /\ [][NextKeyboard]_vars

\* The input stream from startInputStream to stopInputStream, with public input
\* operations called from another thread at any point
MaxLifecycleCalls == 2

outsideLifecycle == <<AppVersionQuad, lastSeenFrame, sendVars, invalVars, qualityVars,
                      recvVars,
                      sessionVars, drainVars,
    codecVars,
    statsVars,
    orderVars,
    recvLockVars,
    owedVars>>

NextLifecycle ==
    \/ StartInputFails /\ UNCHANGED <<outsideLifecycle, callerVars>>
    \/ StartInputThread /\ UNCHANGED <<outsideLifecycle, callerVars>>
    \/ StartInputInitialized /\ UNCHANGED <<outsideLifecycle, callerVars>>
    \/ StartInputEnableHaptics /\ UNCHANGED <<outsideLifecycle, callerVars>>
    \/ StopInputClearInitialized /\ UNCHANGED outsideLifecycle
    \/ StopInputSignalShutdown /\ UNCHANGED outsideLifecycle
    \/ StopInputJoin /\ UNCHANGED outsideLifecycle
    \/ /\ inputCall.n < MaxLifecycleCalls
       /\ LiSendKeyboardEvent(65, 3, 0)
       /\ UNCHANGED outsideLifecycle
    \/ /\ inputCall.n < MaxLifecycleCalls
       /\ RecordedPointerAndPadCall
       /\ UNCHANGED outsideLifecycle
    \/ InputWait /\ UNCHANGED <<outsideLifecycle, callerVars>>
    \/ InputWaitInterrupted /\ UNCHANGED <<outsideLifecycle, callerVars>>
    \/ InputBatch /\ UNCHANGED <<outsideLifecycle, callerVars>>
    \/ InputSend /\ UNCHANGED <<outsideLifecycle, callerVars>>

SpecLifecycle == InitInputSpec /\ [][NextLifecycle]_vars

\* The receive thread of a Gen7 server, with frames arriving, until the thread
\* returns
RecvVersions == { <<7, 1, 415>>, <<7, 1, 431>> }

outsideRecv == <<AppVersionQuad, sendVars, invalVars, inputVars,
                 callerVars,
                 sessionVars, drainVars,
    codecVars,
    statsVars,
    orderVars,
    recvLockVars,
    owedVars>>

InitRecvSpec ==
    /\ AppVersionQuad \in RecvVersions
    /\ InitSession

NextRecv ==
    \/ /\ recvPc = "running"
       /\ \E frameIndex \in lastSeenFrame..Min(lastSeenFrame + 1, MaxRecvFrame) :
            SawFrame(frameIndex) /\ UNCHANGED <<outsideRecv, recvVars>>
    \/ ReceiveServiceFails /\ UNCHANGED <<outsideRecv, lastSeenFrame, qualityVars>>
    \/ ReceiveDisconnect /\ UNCHANGED <<outsideRecv, lastSeenFrame, qualityVars>>
    \/ ReceiveDiscarded /\ UNCHANGED <<outsideRecv, lastSeenFrame, qualityVars>>
    \/ /\ recvPc = "running"
       /\ \E type \in ReceivedTypes, bytes \in Payloads, framed \in BOOLEAN :
            /\ ReceiveMessage(type, bytes, framed)
            /\ UNCHANGED <<outsideRecv, lastSeenFrame, qualityVars>>

SpecRecv == InitRecvSpec /\ [][NextRecv]_vars

\* The control stream from startControlStream to the return of stopControlStream,
\* on a Gen4 server (TCP, loss statistics) and on a Gen7 server (ENet, encrypted,
\* periodic ping)
SessionVersions == {<<4, 0, 0>>, <<7, 1, 431>>}

outsideControl == <<AppVersionQuad, lastSeenFrame, currentEnetSequenceNumber, sendPc,
                    enetPacket, wire, nSends, rfiEnabled, invalidReferenceFrameTuples,
                    lossFrontier, lossCall, idrCall, irfPc, payload, irfMsg,
                    failedAsserts, pass, escalation, qualityVars, inputVars, recvVars,
                    callerVars, drainVars,
    codecVars,
    statsVars,
    orderVars,
    recvLockVars,
    owedVars>>

InitControlSpec ==
    /\ AppVersionQuad \in SessionVersions
    /\ InitSession

NextControl ==
    \/ StartControlStream /\ UNCHANGED outsideControl
    \/ ControlEnetHostCreate /\ UNCHANGED outsideControl
    \/ ControlEnetHostConnect /\ UNCHANGED outsideControl
    \/ ControlServiceConnect /\ UNCHANGED outsideControl
    \/ ControlConnectTcp /\ UNCHANGED outsideControl
    \/ ControlCreateThread /\ UNCHANGED outsideControl
    \/ ControlSendStartBegin /\ UNCHANGED outsideControl
    \/ ControlSendStartEnd /\ UNCHANGED outsideControl
    \/ ControlShutdownSocket /\ UNCHANGED outsideControl
    \/ ControlInterruptThread /\ UNCHANGED outsideControl
    \/ ControlJoinThread /\ UNCHANGED outsideControl
    \/ ControlCloseThread /\ UNCHANGED outsideControl
    \/ ControlRelease /\ UNCHANGED outsideControl
    \/ ControlPeerReset /\ UNCHANGED outsideControl
    \/ ControlPeerDisconnect /\ UNCHANGED outsideControl
    \/ ControlHostDestroy /\ UNCHANGED outsideControl
    \/ ControlCloseSocket /\ UNCHANGED outsideControl
    \/ ControlReturn /\ UNCHANGED outsideControl
    \/ StopControlStream /\ UNCHANGED outsideControl
    \/ \E t \in ControlThreads : ThreadExitsInterrupted(t) /\ UNCHANGED outsideControl
    \/ ReceiveThreadStarts /\ UNCHANGED outsideControl
    \/ ReceiveServiceBegin /\ UNCHANGED outsideControl
    \/ ReceiveServiceEnd /\ UNCHANGED outsideControl
    \/ LossStatsStarts /\ UNCHANGED outsideControl
    \/ \E t \in {"lossStats", "invalidateRefFrames"} :
         ThreadSendBegin(t) /\ UNCHANGED outsideControl
    \/ LossStatsSendEnd /\ UNCHANGED outsideControl
    \/ RequestIdrFrameOnDemand /\ UNCHANGED outsideControl
    \/ InvalidateThreadWaits /\ UNCHANGED outsideControl
    \/ InvalidateThreadWakes /\ UNCHANGED outsideControl
    \/ InvalidateSendEnd /\ UNCHANGED outsideControl

SpecControl == InitControlSpec /\ [][NextControl]_vars

-----------------------------------------------------------------------------
(* Properties of sendMessageEnet, checked under SpecSend *)

\* The encrypted frames the peer has accepted from enet_peer_send, in call order
EncryptedOnWire == SelectSeq(wire, LAMBDA f : f.enc /\ f.err = 0)

\* C1, as the specification states it: the seq values of the encrypted frames, in
\* the order of the enet_peer_send calls, are strictly increasing (as they are if
\* they form the gap-free prefix 0, 1, 2, ... of the integers).
C1_WireSeqStrictlyIncreasing ==
    \A i, j \in 1..Len(EncryptedOnWire) :
        i < j => EncryptedOnWire[i].seq < EncryptedOnWire[j].seq

\* C2: the counter starts at 0; a step of the session either leaves it alone or is
\* the sequence step of one encrypted send attempt, which adds exactly one; it is
\* never reset or decremented; and no two encrypted frames, handed to the peer or
\* still held by a sender, carry the same seq.
C2_SeqCounterDiscipline ==
    /\ currentEnetSequenceNumber = 0
    /\ [][ \/ currentEnetSequenceNumber' = currentEnetSequenceNumber
           \/ /\ currentEnetSequenceNumber' = currentEnetSequenceNumber + 1
              /\ \E t \in SenderThreads : sendPc[t] = "seq" /\ sendPc'[t] # "seq" ]_vars
    /\ [][ (\E t \in SenderThreads : sendPc[t] = "seq" /\ sendPc'[t] # "seq")
             => currentEnetSequenceNumber' = currentEnetSequenceNumber + 1 ]_vars
    /\ [](\A i, j \in 1..Len(EncryptedOnWire) :
             i # j => EncryptedOnWire[i].seq # EncryptedOnWire[j].seq)
    /\ [](\A t \in SenderThreads :
             (enetPacket[t].live /\ enetPacket[t].enc /\ sendPc[t] \in {"lockSend", "send"})
               => /\ enetPacket[t].seq < currentEnetSequenceNumber
                  /\ \A i \in 1..Len(EncryptedOnWire) :
                        EncryptedOnWire[i].seq # enetPacket[t].seq
                  /\ \A u \in SenderThreads \ {t} :
                        (enetPacket[u].live /\ sendPc[u] \in {"lockSend", "send"})
                          => enetPacket[u].seq # enetPacket[t].seq)

\* C2's case: two senders have each handed an encrypted frame to the peer
C2_TwoSendersSent ==
    /\ Len(EncryptedOnWire) >= 2
    /\ EncryptedOnWire[1].by # EncryptedOnWire[2].by
    /\ currentEnetSequenceNumber >= 2

-----------------------------------------------------------------------------
(* Properties of the invalidation queue and its worker, checked under SpecInval *)

\* C3: a range message carries the start of the first tuple the worker dequeued
\* and the end of the last; every tuple that was queued at the worker's first
\* dequeue has been consumed; when no tuple was queued after that dequeue the last
\* tuple consumed is the last that was queued, so the range is (a1, bn); and the
\* assertion on the order of the ends has not failed.
C3_RangeCoalesced ==
    /\ "qfit->endFrame >= payload[1]" \notin failedAsserts
    /\ (irfPc = "sending" /\ irfMsg.kind = "range")
         => /\ pass.begun
            /\ pass.left = 0
            /\ invalidReferenceFrameTuples = <<>> \/ pass.disturbed
            /\ irfMsg.type = packetTypes(IDX_INVALIDATE_REF_FRAMES)
            /\ irfMsg.body = <<pass.first[1], pass.last[2], 0>>
            /\ ~pass.late => pass.last = pass.availLast

\* C3's case: the losses (1,2) then (3,4) were queued before the worker's first
\* dequeue and the worker sends one message with the range (1,4)
C3_TwoLossesOneRange ==
    /\ irfPc = "sending"
    /\ irfMsg.kind = "range"
    /\ ~pass.late
    /\ pass.first = <<1, 2>>
    /\ pass.availLast = <<3, 4>>
    /\ irfMsg.body = <<1, 4, 0>>

ReportedTuple == [startFrame |-> Min(lossFrontier + 1, MaxFrame), endFrame |-> lossFrontier']

\* C5, as the specification states it: the call enqueues (start, end) whenever the
\* queue holds fewer than 20 entries and allocation succeeds; it sets
\* idrFrameRequired only when the queue is full or allocation fails; and it sets
\* the event before it returns.
C5_QueueTupleAsStated ==
    [][ /\ (~lossCall.active /\ lossCall'.active)
          => /\ (Len(invalidReferenceFrameTuples) < 20 /\ lossCall'.alloc = "ok")
                  => invalidReferenceFrameTuples' =
                        Append(invalidReferenceFrameTuples, ReportedTuple)
             /\ (idrFrameRequired' /\ ~idrFrameRequired)
                  => \/ Len(invalidReferenceFrameTuples) >= 20
                     \/ lossCall'.alloc = "failed"
        /\ (lossCall.active /\ ~lossCall'.active) => invalidateRefFramesEvent' ]_vars

\* C5, amended: with reference frame invalidation enabled the call enqueues
\* (start, end) when the queue holds fewer than 20 entries and allocation
\* succeeds, and otherwise leaves the queue alone and sets idrFrameRequired; with
\* it disabled the call enqueues nothing and sets idrFrameRequired; the call never
\* clears idrFrameRequired; and it sets the event before it returns.
C5_QueueTupleContract ==
    [][ /\ (~lossCall.active /\ lossCall'.active)
          => /\ (rfiEnabled /\ lossCall'.alloc = "ok"
                   /\ Len(invalidReferenceFrameTuples) < 20)
                  => /\ invalidReferenceFrameTuples' =
                           Append(invalidReferenceFrameTuples, ReportedTuple)
                     /\ idrFrameRequired' = idrFrameRequired
             /\ (rfiEnabled /\ (lossCall'.alloc = "failed"
                                  \/ Len(invalidReferenceFrameTuples) >= 20))
                  => /\ invalidReferenceFrameTuples' = invalidReferenceFrameTuples
                     /\ idrFrameRequired'
             /\ ~rfiEnabled
                  => /\ invalidReferenceFrameTuples' = invalidReferenceFrameTuples
                     /\ idrFrameRequired'
        /\ (lossCall.active /\ ~lossCall'.active) => invalidateRefFramesEvent' ]_vars

\* C5's case: a call whose allocation succeeded found the queue full, left it
\* alone and set idrFrameRequired, and has yet to set the event
C5_OfferExceededBound ==
    /\ lossCall.active
    /\ lossCall.alloc = "ok"
    /\ Len(invalidReferenceFrameTuples) = InvalidationQueueBound
    /\ idrFrameRequired
    /\ escalation.pending
    /\ ~invalidateRefFramesEvent

-----------------------------------------------------------------------------
(* Properties of the connection quality window, checked under SpecQuality *)

\* The loss percentage of the window last evaluated, from its two counts
EvaluatedLoss == 100 - ((evaluation.good * 100) \div evaluation.total)

\* C6: at every window evaluation with a non-zero frame total,
\* connectionStatusUpdate(POOR) is emitted exactly when the last status reported is
\* not POOR and the loss is at least 30%, or at least 15% with the previous
\* evaluated window also at least 15%; so POOR and OKAY alternate in the sequence
\* of updates, starting with POOR, and a window with 60 good frames of 100 has a
\* loss of 40% and emits POOR from OKAY and nothing from POOR.
C6_PoorExactlyWhen ==
    /\ evaluation.done =>
         /\ evaluation.total # 0
         /\ lastIntervalLossPercentage = EvaluatedLoss
         /\ (evaluation.emitted = CONN_STATUS_POOR) <=>
              /\ evaluation.statusBefore # CONN_STATUS_POOR
              /\ \/ EvaluatedLoss >= 30
                 \/ EvaluatedLoss >= 15 /\ evaluation.lossBefore >= 15
    /\ \A i \in 1..Len(statusUpdates) :
         statusUpdates[i] = IF i % 2 = 1 THEN CONN_STATUS_POOR ELSE CONN_STATUS_OKAY
    /\ FrameLossPercent(60, 100) = 40
    /\ WindowUpdate(FrameLossPercent(60, 100), 0, CONN_STATUS_OKAY) = CONN_STATUS_POOR
    /\ WindowUpdate(FrameLossPercent(60, 100), 40, CONN_STATUS_POOR) # CONN_STATUS_POOR

\* The second of two consecutive windows at 15-29% has just turned OKAY into POOR
C6_SecondModerateWindowPoor ==
    /\ evaluation.done
    /\ evaluation.statusBefore = CONN_STATUS_OKAY
    /\ EvaluatedLoss >= 15 /\ EvaluatedLoss <= 29
    /\ evaluation.lossBefore >= 15 /\ evaluation.lossBefore <= 29
    /\ evaluation.emitted = CONN_STATUS_POOR
    /\ statusUpdates = <<CONN_STATUS_POOR>>

\* C7: a window evaluated from POOR with a loss of at most 5% emits
\* connectionStatusUpdate(OKAY) and leaves the status OKAY; a window with a loss of
\* 6% to 14% emits nothing and leaves the status as it was, whatever the status
\* and the previous window's loss were.
C7_OkayRecoveryAndDeadBand ==
    evaluation.done =>
      /\ (evaluation.statusBefore = CONN_STATUS_POOR /\ EvaluatedLoss <= 5) =>
           /\ evaluation.emitted = CONN_STATUS_OKAY
           /\ lastConnectionStatusUpdate = CONN_STATUS_OKAY
      /\ (EvaluatedLoss >= 6 /\ EvaluatedLoss <= 14) =>
           /\ evaluation.emitted = "none"
           /\ lastConnectionStatusUpdate = evaluation.statusBefore

\* A window at 6-14% has just been evaluated from POOR, after a window at 15% or
\* more
C7_DeadBandFromPoor ==
    /\ evaluation.done
    /\ evaluation.statusBefore = CONN_STATUS_POOR
    /\ evaluation.lossBefore >= 15
    /\ EvaluatedLoss >= 6 /\ EvaluatedLoss <= 14
    /\ evaluation.emitted = "none"
    /\ lastConnectionStatusUpdate = CONN_STATUS_POOR

-----------------------------------------------------------------------------
(* Properties of inputSendThreadProc, checked under SpecInput and SpecAbsMouse *)

\* The packet LiSendMouseMoveEvent(30000, 0) queues
Move30000 == RelMousePacket(30000, 0)

\* The host-order deltas of a queued relative move
MoveOf(packet) == <<ToInt16(htons(packet.deltaX)), ToInt16(htons(packet.deltaY))>>

\* The relative moves at the head of q that fit into total without leaving the
\* range of a short, added up: the sum, and how many moves it took
RECURSIVE FittingMoves(_, _, _)
FittingMoves(total, taken, q) ==
    IF q = <<>> \/ Head(q).type # "PACKET_TYPE_REL_MOUSE_MOVE"
      THEN [total |-> total, taken |-> taken]
    ELSE LET d == MoveOf(Head(q))
             sum == <<total[1] + d[1], total[2] + d[2]>>
         IN  IF sum[1] \in INT16_MIN..INT16_MAX /\ sum[2] \in INT16_MIN..INT16_MAX
               THEN FittingMoves(sum, taken + 1, Tail(q))
               ELSE [total |-> total, taken |-> taken]

\* The pass last ended began at a relative move and took its packet to the send
RelMovePassEnded ==
    /\ service.phase = "done"
    /\ Head(service.start).type = "PACKET_TYPE_REL_MOUSE_MOVE"

\* C8 as stated: of three moves (30000, 0) queued before inputSendThreadProc
\* runs, the first two are coalesced into one packet of 60000 and the third is
\* left to be sent separately.
C8_FirstTwoCoalesced ==
    (/\ RelMovePassEnded
     /\ ~service.late
     /\ service.start = <<Move30000, Move30000, Move30000>>) =>
       /\ service.sent = <<[Move30000 EXCEPT !.deltaX = htons(60000)]>>
       /\ packetQueue = <<Move30000>>

\* C8, amended: a pass that begins at a relative move sends one packet, carrying
\* the sum of that move and of the moves behind it that fit without the sum
\* leaving INT16_MIN..INT16_MAX, and leaves the rest queued. 30000 + 30000 does not
\* fit: of three moves (30000, 0) the pass sends the first alone, as (30000, 0),
\* and leaves two queued; a pass that begins at two moves (30000, 0) sends
\* (30000, 0), and so does one that begins at the last of them alone.
C8_CoalescingStopsAtInt16 ==
    RelMovePassEnded =>
      /\ Len(service.sent) = 1
      /\ ~service.late =>
           LET fit == FittingMoves(MoveOf(Head(service.start)), 1,
                                   Tail(service.start))
           IN  /\ service.sent =
                    <<RelMousePacket(fit.total[1], fit.total[2])>>
               /\ packetQueue =
                    SubSeq(service.start, fit.taken + 1, Len(service.start))
      /\ (~service.late
            /\ service.start = <<Move30000, Move30000, Move30000>>) =>
           /\ service.sent = <<Move30000>>
           /\ packetQueue = <<Move30000, Move30000>>
      /\ (Len(service.start) >= 2
            /\ service.start[1] = Move30000 /\ service.start[2] = Move30000) =>
           service.sent = <<Move30000>>
      /\ (~service.late /\ service.start = <<Move30000>>) =>
           service.sent = <<Move30000>>

\* A pass over three queued moves (30000, 0) has ended, no move queued meanwhile
C8_ThreeLargeMovesServed ==
    /\ RelMovePassEnded
    /\ ~service.late
    /\ service.start = <<Move30000, Move30000, Move30000>>
    /\ service.sent = <<Move30000>>
    /\ inputPc = "wait"

\* The number of absolute moves at the head of q
RECURSIVE AbsRun(_)
AbsRun(q) ==
    IF q = <<>> \/ Head(q).type # "PACKET_TYPE_ABS_MOUSE_MOVE" THEN 0
    ELSE 1 + AbsRun(Tail(q))

\* The pass last ended began at an absolute move, with no packet queued during
\* the pass
AbsMovePassEnded ==
    /\ service.phase = "done"
    /\ Head(service.start).type = "PACKET_TYPE_ABS_MOUSE_MOVE"
    /\ ~service.late

\* C9: when N absolute positions are queued back to back at the moment
\* inputSendThreadProc takes the first, and nothing is queued during the pass,
\* the pass sends exactly one packet, the Nth position, whose x is N - 1 pointer
\* steps from the first; the N - 1 older holders are gone from the queue, and
\* what was queued behind the N positions is still there.
C9_NewestPositionSent ==
    AbsMovePassEnded =>
      LET N == AbsRun(service.start)
      IN  /\ N >= 1 /\ N <= InputQueueBound
          /\ service.sent = <<service.start[N]>>
          /\ htons(service.sent[1].x) = htons(service.start[1].x) + (N - 1)
          /\ Len(inputSent) = 1
          /\ inputSent[1].packet = service.start[N]
          /\ packetQueue = SubSeq(service.start, N + 1, Len(service.start))

\* A pass over a queue full of positions has ended with the newest sent
C9_FullQueueOneSend ==
    /\ AbsMovePassEnded
    /\ AbsRun(service.start) = InputQueueBound
    /\ service.sent = <<service.start[InputQueueBound]>>
    /\ packetQueue = <<>>

-----------------------------------------------------------------------------
(* Properties of the termination message, checked under SpecRecv *)

\* The thread returned on a termination message that carried a value: two
\* payload bytes or more
TerminationReceived ==
    /\ recvEvent.kind = "termination"
    /\ Len(recvEvent.payload) >= 2

\* The code passed to connectionTerminated
ReportedCode == recvTerminated[Len(recvTerminated)]

\* The four bytes of an int, most significant first
BytesOfInt(code) ==
    <<(code \div 16777216) % 256, (code \div 65536) % 256, (code \div 256) % 256,
      code % 256>>

\* C10: on a termination message the code passed to connectionTerminated is
\* ML_ERROR_GRACEFUL_TERMINATION for the HRESULT 0x80030023 and for the legacy
\* reason 0x0100 when a frame has been seen, ML_ERROR_UNEXPECTED_EARLY_TERMINATION
\* for the same values when none has, ML_ERROR_PROTECTED_CONTENT for the HRESULT
\* 0x800e9302, and for every other value the 32 bits received (an HRESULT) or the
\* reason received (a legacy reason, so 0x0200 is reported as 0x0200).
C10_TerminationCode ==
    TerminationReceived =>
      LET bytes == recvEvent.payload
          closed == IF recvEvent.frameSeen
                      THEN ML_ERROR_GRACEFUL_TERMINATION
                      ELSE ML_ERROR_UNEXPECTED_EARLY_TERMINATION
      IN  /\ Len(recvTerminated) = 1
          /\ recvPc = "returned"
          /\ IF Len(bytes) >= 4
               THEN LET hresult == SubSeq(bytes, 1, 4)
                    IN  IF hresult = <<128, 3, 0, 35>> THEN ReportedCode = closed
                        ELSE IF hresult = <<128, 14, 147, 2>>
                          THEN ReportedCode = ML_ERROR_PROTECTED_CONTENT
                        ELSE BytesOfInt(ReportedCode) = hresult
               ELSE LET reason == SubSeq(bytes, 1, 2)
                    IN  IF reason = <<0, 1>> THEN ReportedCode = closed
                        ELSE /\ ReportedCode = reason[1] + 256 * reason[2]
                             /\ reason = <<0, 2>> => ReportedCode = 512

\* HRESULT 0x80030023 arrived after a frame was seen and was reported as graceful
C10_GracefulAfterFrame ==
    /\ TerminationReceived
    /\ recvEvent.payload = <<128, 3, 0, 35>>
    /\ recvEvent.frameSeen
    /\ ReportedCode = ML_ERROR_GRACEFUL_TERMINATION

-----------------------------------------------------------------------------
(* The decoding chosen for a termination message, checked under SpecRecv *)

\* code is what the big-endian u32 at the head of bytes is reported as
HresultDecoding(bytes, code, frameSeen) ==
    LET hresult == SubSeq(bytes, 1, 4)
    IN  IF hresult = <<128, 3, 0, 35>>
          THEN code = (IF frameSeen THEN 0 ELSE -102)
        ELSE IF hresult = <<128, 14, 147, 2>> THEN code = -103
        ELSE BytesOfInt(code) = hresult

\* code is what the little-endian u16 at the head of bytes is reported as
LegacyDecoding(bytes, code, frameSeen) ==
    IF SubSeq(bytes, 1, 2) = <<0, 1>>
      THEN code = (IF frameSeen THEN 0 ELSE -102)
      ELSE code = bytes[1] + 256 * bytes[2]

\* C11, as stated: a termination message is decoded as a big-endian u32 HRESULT
\* exactly when the bytes after its type field are at least 6, and as a
\* little-endian u16 reason when they are fewer.
C11_HresultFromSixPayloadBytes ==
    TerminationReceived =>
      IF Len(recvEvent.payload) >= 6
        THEN HresultDecoding(recvEvent.payload, ReportedCode, recvEvent.frameSeen)
        ELSE LegacyDecoding(recvEvent.payload, ReportedCode, recvEvent.frameSeen)

\* C11, amended: a termination message is decoded as a big-endian u32 HRESULT
\* exactly when the bytes after its type field are at least 4 (the length the
\* code compares with 6 includes the two bytes of the type); with 2 or 3 bytes it
\* is decoded as a little-endian u16 reason; with fewer the reason is not taken
\* from the message, and the code reported is some u16 value or the early
\* termination code.
C11_HresultFromFourPayloadBytes ==
    recvEvent.kind = "termination" =>
      LET bytes == recvEvent.payload
      IN  /\ Len(bytes) >= 4 =>
               HresultDecoding(bytes, ReportedCode, recvEvent.frameSeen)
          /\ Len(bytes) \in 2..3 =>
               LegacyDecoding(bytes, ReportedCode, recvEvent.frameSeen)
          /\ Len(bytes) < 2 =>
               ReportedCode \in (0..65535) \cup {ML_ERROR_UNEXPECTED_EARLY_TERMINATION}

\* A termination message with four bytes after the type was reported as the
\* HRESULT 0x00020000, not as the reason 0x0200
C11_FourBytesReadAsHresult ==
    /\ recvEvent.kind = "termination"
    /\ recvEvent.payload = <<0, 2, 0, 0>>
    /\ ReportedCode = 131072

-----------------------------------------------------------------------------
(* The keyboard modifier fixups, checked under SpecKeyboard *)

\* The modifier flags set in a byte, as bit positions: SHIFT 0, CTRL 1, ALT 2,
\* META 3
FlagsOf(byte) == { i \in 0..7 : (byte \div 2^i) % 2 = 1 }

\* The flags the fixups leave for a key, given the flags the caller passed
FixedFlags(key, flags) ==
    IF key \in {91, 92} THEN flags \ {3}
    ELSE IF key = 160 THEN flags \cup {0}
    ELSE IF key = 161 THEN flags \ {0}
    ELSE IF key = 162 THEN flags \cup {1}
    ELSE IF key = 163 THEN flags \ {1}
    ELSE IF key = 164 THEN flags \cup {2}
    ELSE IF key = 165 THEN flags \ {2}
    ELSE flags

\* The last public input operation was a LiSendKeyboardEvent whose packet is the
\* newest of the queue
KeyboardPacketQueued ==
    /\ inputCall.op = "LiSendKeyboardEvent"
    /\ inputCall.queued
    /\ packetQueue # <<>>
    /\ packetQueue[Len(packetQueue)].type = "PACKET_TYPE_KEYBOARD"

\* C12, as stated: the fixups apply to the key codes 0x5B, 0x5C and 0xA0..0xA5
\* themselves, and every other key code leaves the modifiers as passed.
C12_FixupByKeyCode ==
    KeyboardPacketQueued =>
      FlagsOf(packetQueue[Len(packetQueue)].modifiers) =
        FixedFlags(inputCall.args[1], FlagsOf(inputCall.args[3]))

\* C12, amended: the fixups apply according to the low byte of the key code, so
\* 0x80A0 sets SHIFT as 0xA0 does; the key code and the key action are stored as
\* passed.
C12_FixupByLowByte ==
    KeyboardPacketQueued =>
      LET queued == packetQueue[Len(packetQueue)]
      IN  /\ FlagsOf(queued.modifiers) =
               FixedFlags(inputCall.args[1] % 256, FlagsOf(inputCall.args[3]))
          /\ queued.modifiers \in 0..255
          /\ queued.keyCode = inputCall.args[1]
          /\ queued.keyAction = inputCall.args[2]

\* Right shift down with all four flags and others passed: SHIFT alone is cleared
C12_RightShiftClearsShift ==
    /\ KeyboardPacketQueued
    /\ inputCall.args = <<161, 3, 255>>
    /\ packetQueue[Len(packetQueue)].modifiers = 254

-----------------------------------------------------------------------------
(* The public input operations around startInputStream and stopInputStream, *)
(* checked under SpecLifecycle                                              *)

\* A step of a public input operation
InputCallStep == inputCall'.n # inputCall.n

-----------------------------------------------------------------------------
(* Properties of startControlStream, stopControlStream and their threads,  *)
(* checked under SpecControl                                               *)

\* C14: in stopControlStream, when the peer is disconnected, the host destroyed or
\* the TCP socket closed, the receive, loss statistics and invalidation threads
\* have all been joined, and no such thread calls on the peer, the host or the
\* socket afterwards.
C14_JoinedBeforeRelease ==
    (ctlPhase \in {"stopping", "stopped"} /\ released.done) =>
      /\ released.unjoined = {}
      /\ released.lateOps = {}
      /\ \A t \in ControlThreads : threadState[t] = "closed"
      /\ \A t \in ControlThreads : threadInterrupted[t]
      /\ hostOps = {}

\* stopControlStream has returned on a Gen7 server after disconnecting the peer
\* and destroying the host
C14_StoppedAndReleased ==
    /\ ctlPhase = "stopped"
    /\ AppVersionQuad[1] = 7
    /\ released.done
    /\ peer = "NULL" /\ client = "NULL"
    /\ unlockedOp.op = "enet_host_destroy"


C16_HostOpsUnderMutex ==
    /\ Cardinality(hostOps) <= 1
    /\ \A t \in hostOps : enetMutex = t
    /\ unlockedOp.running = {}

\* A thread is inside enet_peer_send under enetMutex while the receive thread and
\* another thread are running on a Gen7 server
C16_SendWhileOthersRun ==
    /\ AppVersionQuad[1] = 7
    /\ hostOps = {"lossStats"}
    /\ enetMutex = "lossStats"
    /\ {"controlReceive", "invalidateRefFrames"} \subseteq RunningThreads
    /\ threadPc["controlReceive"] = "loop"


\* The threads for which a teardown script of startControlStream holds a
\* PltJoinThread
JoinedBy(script) ==
    {script[i][2] : i \in {j \in 1..Len(script) : script[j][1] = "PltJoinThread"}}

\* C17: when startControlStream returns an error, stopping is true, every thread it
\* created has been interrupted, joined and closed, the socket, the peer and the
\* host were released only after those joins and are invalid or null; a failed
\* START A or START B and a failed creation of the loss statistics thread stop the
\* receive thread only, a failed creation of the invalidation thread stops the loss
\* statistics thread and the receive thread.
C17_FailedStartTornDown ==
    /\ ctlPhase = "startFailed" =>
         /\ ctlErr # 0
         /\ stopping
         /\ \A t \in ControlThreads : threadState[t] \in {"notCreated", "closed"}
         /\ \A t \in ControlThreads : threadState[t] = "closed" => threadInterrupted[t]
         /\ released.unjoined = {} /\ released.lateOps = {}
         /\ ctlSock = "INVALID_SOCKET" /\ peer = "NULL" /\ client = "NULL"
         /\ threadState["invalidateRefFrames"] = "notCreated"
    /\ \A step \in {<<"START", "A">>, <<"START", "B">>, <<"PltCreateThread", "lossStats">>} :
         JoinedBy(FailureScript(step)) = {"controlReceive"}
    /\ JoinedBy(FailureScript(<<"PltCreateThread", "invalidateRefFrames">>))
         = {"lossStats", "controlReceive"}
    /\ \A step \in {<<"enet_host_create", "">>, <<"enet_host_connect", "">>,
                    <<"serviceEnetHost", "">>, <<"connectTcpSocket", "">>,
                    <<"PltCreateThread", "controlReceive">>} :
         JoinedBy(FailureScript(step)) = {}

\* startControlStream has returned an error after the creation of the invalidation
\* thread failed on a Gen7 server: the other two threads are closed
C17_InvalidationStartFailed ==
    /\ ctlPhase = "startFailed"
    /\ AppVersionQuad[1] = 7
    /\ threadState["lossStats"] = "closed"
    /\ threadState["controlReceive"] = "closed"
    /\ released.done


\* C18 (as stated): after a send of the loss statistics thread or of the
\* invalidation thread has failed, that thread has called connectionTerminated and
\* returned: it starts no further send and makes no further callback.
C18_ExitsAfterSendFailure ==
    /\ \A t \in sendFailed :
         /\ threadState[t] # "running"
         /\ \E i \in 1..Len(callbacks) : callbacks[i] = <<t, "connectionTerminated">>
    /\ afterFailure = {}


\* C19 (as stated): after a connectionTerminated callback no thread of the session
\* makes another callback: connectionTerminated occurs at most once and is the
\* last callback made.
C19_TerminatedIsLast ==
    \A i \in 1..Len(callbacks) :
      callbacks[i][2] = "connectionTerminated" => i = Len(callbacks)

-----------------------------------------------------------------------------
(* The receive thread of a Gen4 and of a Gen7 server with the server's      *)
(* datagrams arriving while it runs, and the drain after a disconnect       *)

DrainVersions == {<<4, 0, 0>>, <<7, 1, 431>>}

outsideDrain == <<AppVersionQuad, lastSeenFrame, sendVars, invalVars, qualityVars,
                  inputVars, recvVars, callerVars, sessionVars,
    codecVars,
    statsVars,
    orderVars,
    recvLockVars,
    owedVars>>

InitDrainSpec ==
    /\ AppVersionQuad \in DrainVersions
    /\ InitSession

NextDrain ==
    \/ DrainThreadStarts /\ UNCHANGED outsideDrain
    \/ \E kind \in FrameKinds : FrameArrives(kind) /\ UNCHANGED outsideDrain
    \/ DisconnectDrainPoll /\ UNCHANGED outsideDrain
    \/ DisconnectDrainService /\ UNCHANGED outsideDrain
    \/ DrainThreadInterrupted /\ UNCHANGED outsideDrain

SpecDrain == InitDrainSpec /\ [][NextDrain]_vars

\* The callbacks of the disconnect path: connectionTerminated(-1) after the
\* 1000 ms service returned 0, and after a DISCONNECT event
DisconnectCallbacks ==
    {i \in 1..Len(drainLog) :
       /\ drainLog[i][1] = "connectionTerminated"
       /\ drainLog[i][3] \in {"timeout", "disconnect"}}

\* C20: the control messages that stood behind a disconnect command taken by the
\* intercept are handled by the receive thread before the connectionTerminated of
\* the disconnect path, and the intercept is removed only by a serviceEnetHost of
\* 100 ms that returned 0, with disconnectPending set.
C20_DrainedBeforeDisconnect ==
    /\ [](\A i \in DisconnectCallbacks :
            \A id \in behindDisconnect :
              \E j \in 1..(i - 1) : drainLog[j][1] = "RECEIVE" /\ drainLog[j][2] = id)
    /\ [](DisconnectCallbacks # {} => disconnectPending /\ intercept = "NULL")
    /\ [][intercept' # intercept =>
            /\ intercept' = "NULL"
            /\ disconnectPending
            /\ serviceCall' = [timeout |-> 100, err |-> 0]]_vars

\* A disconnect command followed by two control messages was intercepted, both
\* messages were handled, and the thread then called connectionTerminated(-1)
C20_TwoMessagesDrained ==
    /\ Cardinality(behindDisconnect) = 2
    /\ Len(drainLog) = 3
    /\ drainLog[1][1] = "RECEIVE" /\ drainLog[2][1] = "RECEIVE"
    /\ {drainLog[1][2], drainLog[2][2]} = behindDisconnect
    /\ drainLog[3] = <<"connectionTerminated", -1, "timeout">>
    /\ drainPc = "returned"

-----------------------------------------------------------------------------
(* A message through encryptControlMessage, the network and                 *)
(* decryptControlMessageToV1 on a server with an encrypted control stream   *)

CodecVersions == {<<7, 1, 431>>}

outsideCodec == <<lastSeenFrame, AppVersionQuad, sendVars, invalVars, qualityVars,
                  inputVars, callerVars, sessionVars, drainVars,
    statsVars,
    orderVars,
    recvLockVars,
    owedVars>>

InitCodecSpec ==
    /\ AppVersionQuad \in CodecVersions
    /\ InitSession

NextCodec ==
    \/ /\ codecPc = "idle"
       /\ \E ptype \in CodecTypes, body \in CodecPayloads, seq \in CodecSeqs,
             failing \in GcmEncryptSteps \cup {"none"}, junk \in JunkBytes :
            CodecEncrypt(ptype, body, seq, failing, junk)
       /\ UNCHANGED <<outsideCodec, recvVars>>
    \/ /\ codecPc = "framed"
       /\ \E data \in ArrivingPackets(codecFrame, codecMsg) : CodecDeliver(data)
       /\ UNCHANGED <<outsideCodec, recvVars>>
    \/ /\ codecPc = "arrived"
       /\ \E failing \in GcmDecryptSteps \cup {"none"}, junk \in JunkBytes,
             uninit \in UninitLengths :
            CodecReceive(failing, junk, uninit)
       /\ UNCHANGED outsideCodec

SpecCodec == InitCodecSpec /\ [][NextCodec]_vars

\* The frame arrived as it was built and no call failed on either side
CleanRoundTrip ==
    /\ codecPc = "done"
    /\ codecSend.failing = "none"
    /\ codecData = codecFrame
    /\ codecResult.failing = "none"

C22_GcmFailureReported ==
    /\ (codecPc # "idle" /\ codecSend.failing # "none") =>
         ~codecSend.ret /\ ~codecSend.handed /\ codecFrame = <<>>
    /\ (codecResult.outcome = "dispatched" /\ codecResult.decrypted) =>
         codecResult.failing = "none"

-----------------------------------------------------------------------------
(* The haptics packet of startInputStream, checked under SpecLifecycle      *)

\* C23 (as stated): on a server of version 7.1 or later the haptics packet is the
\* first packet in the input queue and the first packet inputSendThreadProc
\* sends, whatever public input operation another thread calls while
\* startInputStream runs.
C23_HapticsPacketFirst ==
    ~(AppVersionQuad[1] < 7 \/ (AppVersionQuad[1] = 7 /\ AppVersionQuad[2] < 1)) =>
      /\ (inputSent = <<>> /\ holder = NoHolder /\ packetQueue # <<>>) =>
           Head(packetQueue) = HapticsPacket
      /\ inputSent # <<>> => inputSent[1].packet = HapticsPacket

-----------------------------------------------------------------------------
(* The order of startControlStream, checked under SpecControl               *)

\* startControlStream has not yet got a successful reply to START x
StartPending(x) ==
    \/ ctlPhase = "initialized"
    \/ \E i \in 1..Len(ctlScript) :
         ctlScript[i][1] \in {"START", "reply"} /\ ctlScript[i][2] = x

\* C24: in a startControlStream that has not failed, the receive thread exists
\* when START A is sent, START B is sent only after START A succeeded, and the
\* loss statistics and invalidation threads are created only after START B
\* succeeded, so neither of them has sent anything or is sending before that.
C24_StartOrder ==
    /\ (ctlPhase = "starting" /\ ctlErr = 0 /\ ControlAt("reply")) =>
         /\ threadState["controlReceive"] # "notCreated"
         /\ Head(ctlScript)[2] = "B" => ~StartPending("A")
    /\ \A t \in {"lossStats", "invalidateRefFrames"} :
         /\ (threadState[t] # "notCreated" /\ ctlErr = 0) =>
              ~StartPending("A") /\ ~StartPending("B")
         /\ (threadPc[t] # "start" \/ t \in hostOps \/ t \in sendFailed) =>
              threadState[t] # "notCreated"
    /\ (threadState["invalidateRefFrames"] # "notCreated") =>
         threadState["lossStats"] # "notCreated"

\* The loss statistics thread is sending while startControlStream, past START B,
\* has yet to create the invalidation thread
C24_TelemetryAfterStartB ==
    /\ ctlPhase = "starting"
    /\ ctlErr = 0
    /\ ControlAt("PltCreateThread")
    /\ threadPc["lossStats"] = "sending"
    /\ threadState["controlReceive"] = "running"
    /\ threadState["invalidateRefFrames"] = "notCreated"

-----------------------------------------------------------------------------
(* The receive thread after a disconnect when nothing interrupts it: the     *)
(* thread is scheduled again and again, and the server's datagrams are      *)
(* finitely many                                                            *)

NextDrainUninterrupted ==
    \/ DrainThreadStarts /\ UNCHANGED outsideDrain
    \/ \E kind \in FrameKinds : FrameArrives(kind) /\ UNCHANGED outsideDrain
    \/ DisconnectDrainPoll /\ UNCHANGED outsideDrain
    \/ DisconnectDrainService /\ UNCHANGED outsideDrain

SpecDrainLive ==
    /\ InitDrainSpec
    /\ [][NextDrainUninterrupted]_vars
    /\ WF_vars(DisconnectDrainPoll /\ UNCHANGED outsideDrain)
    /\ WF_vars(DisconnectDrainService /\ UNCHANGED outsideDrain)

\* The receive thread has called connectionTerminated and returned
DrainTerminated ==
    /\ drainPc = "returned"
    /\ drainLog # <<>>
    /\ drainLog[Len(drainLog)][1] = "connectionTerminated"

\* C25: once disconnectPending is set, the receive thread, if it is not
\* interrupted, calls connectionTerminated and returns; a service of 100 ms that
\* returns 0 removes the intercept, and a service of 1000 ms that returns 0 is
\* followed by connectionTerminated(-1) and the return of the thread.
C25_DisconnectLeadsToTermination ==
    /\ disconnectPending ~> DrainTerminated
    /\ [][(drainPc = "drain" /\ serviceCall' = [timeout |-> 100, err |-> 0]) =>
            /\ intercept = "ignoreDisconnectIntercept" /\ intercept' = "NULL"
            /\ drainPc' = "poll"
            /\ drainLog' = drainLog]_vars
    /\ [][(drainPc = "drain" /\ serviceCall' = [timeout |-> 1000, err |-> 0]) =>
            /\ intercept = "NULL"
            /\ drainLog' = Append(drainLog, <<"connectionTerminated", -1, "timeout">>)
            /\ drainPc' = "returned"]_vars

\* The server's disconnect was intercepted, nothing else arrived, and the thread
\* returned after the service of 1000 ms
C25_TimedOutAfterDisconnect ==
    /\ disconnectPending
    /\ intercept = "NULL"
    /\ nArrived = 1
    /\ serviceCall = [timeout |-> 1000, err |-> 0]
    /\ drainLog = <<<<"connectionTerminated", -1, "timeout">>>>
    /\ drainPc = "returned"

-----------------------------------------------------------------------------
\* The encrypted frame received declares more bytes than the packet holds, or
\* fewer than a sequence number, a tag and a header
InconsistentLength ==
    /\ codecPc = "done"
    /\ codecResult.outcome # "none"
    /\ Len(codecData) >= 8
    /\ Get16(codecData, 1) = 1
    /\ \/ Get16(codecData, 3) + 4 > Len(codecData)
       \/ Get16(codecData, 3) < 4 + AES_GCM_TAG_LENGTH + 4

\* C26: an encrypted control packet whose length field declares more than the
\* bytes received, or less than 4 + 16 + 4, is dropped without being decrypted or
\* dispatched, and decryption reads no byte past the end of the packet.
C26_InconsistentLengthDropped ==
    InconsistentLength =>
        /\ codecResult.outcome = "discarded"
        /\ ~codecResult.decrypted
        /\ codecResult.readPast = 0

-----------------------------------------------------------------------------
\* A packet whose outer type is not 0x0001 has been received on the encrypted
\* control stream
UnframedOnEncryptedStream ==
    /\ codecPc = "done"
    /\ codecResult.outcome # "none"
    /\ encryptedControlStream
    /\ Len(codecData) >= 2
    /\ Get16(codecData, 1) # 1

\* C27: on an encrypted control stream a received packet whose outer type is not
\* 0x0001 is dropped: no rumble and no connectionTerminated callback follows
\* from it, and its buffer is released exactly once.
C27_UnframedPacketDropped ==
    UnframedOnEncryptedStream =>
        /\ codecResult.outcome = "discarded"
        /\ codecResult.dataFrees = 1
        /\ rumble = NoRumble
        /\ recvTerminated = <<>>

-----------------------------------------------------------------------------
(* The input stream fed by two controllers and a mouse button                *)

GamepadVersions == { <<4, 0, 0>>, <<7, 1, 431>> }

\* The reports <<controllerNumber, activeGamepadMask, buttonFlags, leftTrigger,
\* leftStickX>> of the model: one report, the same with other triggers and
\* sticks, and three that differ from it in one more field each
GamepadReports ==
    { <<0, 1, 0, 0, 0>>, <<0, 1, 0, 255, 100>>, <<1, 1, 0, 255, 100>>,
      <<0, 3, 0, 255, 100>>, <<0, 1, 1, 255, 100>> }

outsideGamepad == <<AppVersionQuad, lastSeenFrame, sendVars, invalVars, qualityVars,
                    recvVars, callerVars, sessionVars, drainVars, codecVars,
    statsVars,
    orderVars,
    recvLockVars,
    owedVars>>

InitGamepadSpec ==
    /\ AppVersionQuad \in GamepadVersions
    /\ InitSession

NextGamepad ==
    \/ StartInputThread /\ UNCHANGED outsideGamepad
    \/ StartInputInitialized /\ UNCHANGED outsideGamepad
    \/ StartInputEnableHaptics /\ UNCHANGED outsideGamepad
    \/ \E c \in GamepadReports :
         /\ nInputCalls < MaxGamepadCalls
         /\ LiSendMultiControllerEvent(c[1], c[2], c[3], <<c[4], c[4]>>,
                                       <<c[5], 0, 0, c[5]>>)
         /\ UNCHANGED outsideGamepad
    \/ /\ nInputCalls < MaxGamepadCalls
       /\ LiSendMouseButtonEvent(7, 1)
       /\ UNCHANGED outsideGamepad
    \/ InputWait /\ UNCHANGED outsideGamepad
    \/ InputBatch /\ UNCHANGED outsideGamepad
    \/ InputSend /\ UNCHANGED outsideGamepad

SpecGamepad == InitGamepadSpec /\ [][NextGamepad]_vars

\* The packet is a multi-controller packet with the buttonFlags, controllerNumber
\* and activeGamepadMask of the packet held
SameController(held, next) ==
    /\ next.type = "PACKET_TYPE_MULTI_CONTROLLER"
    /\ next.buttonFlags = held.buttonFlags
    /\ next.controllerNumber = held.controllerNumber
    /\ next.activeGamepadMask = held.activeGamepadMask

\* The input thread holds a multi-controller packet and ends an iteration of its
\* batching loop in this step
GamepadBatchStep ==
    /\ inputPc = "batch"
    /\ holder.type = "PACKET_TYPE_MULTI_CONTROLLER"
    /\ inputPc' = "send" \/ Len(packetQueue') < Len(packetQueue)

\* C28: the input thread merges the multi-controller packet it holds with the
\* next queued packet exactly when that packet is a multi-controller packet with
\* the same buttonFlags, controllerNumber and activeGamepadMask; the merged
\* packet keeps the three fields of the head and takes the triggers and stick
\* axes of the packet merged last; any other packet stays in the queue, is taken
\* as it is by the next wait, and what is sent is the packet held.
C28_MultiControllerCoalescing ==
    /\ [][GamepadBatchStep =>
            IF packetQueue # <<>> /\ SameController(holder, Head(packetQueue))
              THEN /\ packetQueue' = Tail(packetQueue)
                   /\ inputPc' = "batch"
                   /\ SameController(holder, holder')
                   /\ holder'.leftTrigger = Head(packetQueue).leftTrigger
                   /\ holder'.rightTrigger = Head(packetQueue).rightTrigger
                   /\ holder'.sticks = Head(packetQueue).sticks
              ELSE /\ packetQueue' = packetQueue
                   /\ holder' = holder
                   /\ inputPc' = "send"]_vars
    /\ [][(inputPc = "wait" /\ inputPc' # "wait" /\ inputPc' # "returned") =>
            /\ holder' = Head(packetQueue)
            /\ packetQueue' = Tail(packetQueue)]_vars
    /\ [][(inputPc = "send" /\ inputPc' = "wait") =>
            /\ inputSent' = Append(inputSent, inputSent'[Len(inputSent')])
            /\ inputSent'[Len(inputSent')].packet = holder]_vars
    /\ []((inputPc \in {"batch", "send"} /\ holder.type = "PACKET_TYPE_MULTI_CONTROLLER") =>
            SameController(service.start[1], holder))

\* Three reports were queued on a Gen4 server and two packets were sent: the
\* first carries the triggers and sticks of the second report and the mask of
\* the first, the second is the report with the other mask
C28_MergedThenSeparate ==
    /\ AppVersionQuad = <<4, 0, 0>>
    /\ nInputCalls = 3
    /\ packetQueue = <<>>
    /\ inputPc = "wait"
    /\ Len(inputSent) = 2
    /\ inputSent[1].packet = MultiControllerPacket(0, 1, 0, <<255, 255>>, <<100, 0, 0, 100>>)
    /\ inputSent[2].packet = MultiControllerPacket(0, 3, 0, <<255, 255>>, <<100, 0, 0, 100>>)

-----------------------------------------------------------------------------
(* The loss statistics thread on servers of both modes, with the thread that *)
(* reports lost packets                                                     *)

StatsVersions == { <<4, 0, 0>>, <<7, 1, 404>>, <<7, 1, 415>>, <<7, 1, 431>> }

outsideStats == <<AppVersionQuad, lastSeenFrame, sendVars, invalVars, qualityVars,
                  inputVars, recvVars, callerVars, sessionVars, drainVars, codecVars,
    orderVars,
    recvLockVars,
    owedVars>>

InitStatsSpec ==
    /\ AppVersionQuad \in StatsVersions
    /\ InitSession

NextStats ==
    \/ \E uninit \in UninitPairs : LossStatsThreadStarts(uninit) /\ UNCHANGED outsideStats
    \/ LossStatsInterrupted /\ UNCHANGED outsideStats
    \/ LossStatsConstruct /\ UNCHANGED outsideStats
    \/ LossStatsPing /\ UNCHANGED outsideStats
    \/ \E sendOk \in BOOLEAN : LossStatsSend(sendOk) /\ UNCHANGED outsideStats
    \/ LossStatsClear /\ UNCHANGED outsideStats
    \/ \E r \in LostRanges : ConnectionLostPacketsLoad(r[1], r[2]) /\ UNCHANGED outsideStats
    \/ ConnectionLostPacketsStore /\ UNCHANGED outsideStats

SpecStats == InitStatsSpec /\ [][NextStats]_vars

\* C29: in periodic ping mode every message of the loss statistics thread has
\* type 0x0200 and the payload 04 00 00 00 00 00 00 00: the length 4 as a
\* little-endian uint16, the timestamp 0 as a little-endian uint32, and two zero
\* bytes; so every emission carries the same bytes.
C29_PingPayloadFixed ==
    usePeriodicPing =>
        \A i \in 1..Len(statsSent) :
            /\ statsSent[i].type = 512
            /\ statsSent[i].body = <<4, 0, 0, 0, 0, 0, 0, 0>>

-----------------------------------------------------------------------------
\* C30: in loss statistics mode the loss counts of the messages sent add up to
\* the losses that connectionLostPackets had added when the last message was
\* emitted (between those added when its payload was constructed and those added
\* when it was sent), whatever the interleaving of connectionLostPackets with the
\* thread's construct, send and clear.
C30_EveryLossReportedOnce ==
    (~usePeriodicPing /\ statsSent # <<>>) =>
        /\ lossAtEmission.read <= SumLossCounts(statsSent)
        /\ SumLossCounts(statsSent) <= lossAtEmission.send

-----------------------------------------------------------------------------
\* C31: whenever connectionSawFrame evaluates a window, the complete frames of
\* the window are at most the frames it saw, 0 <= intervalGoodFrameCount <=
\* intervalTotalFrameCount, and the frame loss percentage lies in 0..100.
C31_LossPercentInRange ==
    evaluation.done =>
        /\ 0 <= evaluation.good
        /\ evaluation.good <= evaluation.total
        /\ lastIntervalLossPercentage \in 0..100

-----------------------------------------------------------------------------
(* The input stream fed by packets of four types, each carrying the number  *)
(* of its call, with the input thread scheduled again and again             *)

OrderVersions == { <<4, 0, 0>>, <<7, 1, 431>> }

outsideOrder == <<AppVersionQuad, lastSeenFrame, sendVars, invalVars, qualityVars,
                  recvVars, callerVars, sessionVars, drainVars, codecVars, statsVars,
    recvLockVars,
    owedVars>>

InitOrderSpec ==
    /\ AppVersionQuad \in OrderVersions
    /\ InitSession

NextOrder ==
    \/ StartInputThread /\ AcceptedFollowsQueue /\ UNCHANGED outsideOrder
    \/ StartInputInitialized /\ AcceptedFollowsQueue /\ UNCHANGED outsideOrder
    \/ StartInputEnableHaptics /\ AcceptedFollowsQueue /\ UNCHANGED outsideOrder
    \/ /\ nInputCalls < MaxOrderCalls
       /\ LiSendMouseMoveEvent(nInputCalls + 1, -1)
       /\ AcceptedFollowsQueue /\ UNCHANGED outsideOrder
    \/ /\ nInputCalls < MaxOrderCalls
       /\ LiSendMousePositionEvent(nInputCalls + 1, nInputCalls + 1, 1280, 720)
       /\ AcceptedFollowsQueue /\ UNCHANGED outsideOrder
    \/ /\ nInputCalls < MaxOrderCalls
       /\ LiSendMouseButtonEvent(7, nInputCalls + 1)
       /\ AcceptedFollowsQueue /\ UNCHANGED outsideOrder
    \/ /\ nInputCalls < MaxOrderCalls
       /\ LiSendMultiControllerEvent(0, 1, 0, <<nInputCalls + 1, 0>>, <<0, 0, 0, 0>>)
       /\ AcceptedFollowsQueue /\ UNCHANGED outsideOrder
    \/ InputWait /\ AcceptedFollowsQueue /\ UNCHANGED outsideOrder
    \/ InputBatch /\ AcceptedFollowsQueue /\ UNCHANGED outsideOrder
    \/ InputSend /\ AcceptedFollowsQueue /\ UNCHANGED outsideOrder

\* startInputStream runs to its return and the input thread keeps running
SpecOrder ==
    /\ InitOrderSpec
    /\ [][NextOrder]_vars
    /\ WF_vars(StartInputThread /\ AcceptedFollowsQueue /\ UNCHANGED outsideOrder)
    /\ WF_vars(StartInputInitialized /\ AcceptedFollowsQueue /\ UNCHANGED outsideOrder)
    /\ WF_vars(StartInputEnableHaptics /\ AcceptedFollowsQueue /\ UNCHANGED outsideOrder)
    /\ WF_vars(InputWait /\ AcceptedFollowsQueue /\ UNCHANGED outsideOrder)
    /\ WF_vars(InputBatch /\ AcceptedFollowsQueue /\ UNCHANGED outsideOrder)
    /\ WF_vars(InputSend /\ AcceptedFollowsQueue /\ UNCHANGED outsideOrder)

\* The packets are the packets taken from the queue, in their order, cut into
\* runs: each packet stands for a run of one or more packets of its own type,
\* and a packet of a type that is not batched for just itself
RECURSIVE Segmented(_, _)
Segmented(packets, taken) ==
    IF packets = <<>>
      THEN taken = <<>>
      ELSE \E k \in 1..Len(taken) :
             /\ \A j \in 1..k : taken[j].type = packets[1].type
             /\ packets[1].type \notin BatchedTypes => (k = 1 /\ taken[1] = packets[1])
             /\ Segmented(Tail(packets), SubSeq(taken, k + 1, Len(taken)))

\* The packets the input thread has taken from the queue
TakenFromQueue == SubSeq(accepted, 1, Len(accepted) - Len(packetQueue))

\* The packets sent, followed by the packet held if the thread holds one
SentAndHeld ==
    [i \in 1..Len(inputSent) |-> inputSent[i].packet]
        \o (IF inputPc \in {"batch", "send"} THEN <<holder>> ELSE <<>>)

-----------------------------------------------------------------------------
(* The input stream fed by large relative moves and a mouse button *)

outsideMotion == <<AppVersionQuad, lastSeenFrame, sendVars, invalVars, qualityVars,
                   recvVars, callerVars, sessionVars, drainVars, codecVars, statsVars,
    recvLockVars,
    owedVars>>

NextMotion ==
    \/ StartInputThread /\ AcceptedFollowsQueue /\ UNCHANGED outsideMotion
    \/ StartInputInitialized /\ AcceptedFollowsQueue /\ UNCHANGED outsideMotion
    \/ StartInputEnableHaptics /\ AcceptedFollowsQueue /\ UNCHANGED outsideMotion
    \/ \E d \in RelMoves :
         /\ nInputCalls < MaxMotionCalls
         /\ LiSendMouseMoveEvent(d[1], d[2])
         /\ AcceptedFollowsQueue /\ UNCHANGED outsideMotion
    \/ /\ nInputCalls < MaxMotionCalls
       /\ LiSendMouseButtonEvent(7, 1)
       /\ AcceptedFollowsQueue /\ UNCHANGED outsideMotion
    \/ InputWait /\ AcceptedFollowsQueue /\ UNCHANGED outsideMotion
    \/ InputBatch /\ AcceptedFollowsQueue /\ UNCHANGED outsideMotion
    \/ InputSend /\ AcceptedFollowsQueue /\ UNCHANGED outsideMotion

SpecMotion == InitOrderSpec /\ [][NextMotion]_vars

\* The sum of the host-order deltaX and of the host-order deltaY of the relative
\* moves among the packets
RECURSIVE SumOfMoves(_)
SumOfMoves(packets) ==
    IF packets = <<>> THEN <<0, 0>>
    ELSE LET rest == SumOfMoves(Tail(packets))
             p == Head(packets)
         IN  IF p.type = "PACKET_TYPE_REL_MOUSE_MOVE"
               THEN <<HostDelta(p.deltaX) + rest[1], HostDelta(p.deltaY) + rest[2]>>
               ELSE rest

\* The motion sent, with the motion the thread has accumulated and not yet
\* stored while it is in its relative-move loop
MotionSentAndHeld ==
    LET sent == SumOfMoves([i \in 1..Len(inputSent) |-> inputSent[i].packet])
    IN  IF inputPc = "batch" /\ holder.type = "PACKET_TYPE_REL_MOUSE_MOVE"
          THEN <<sent[1] + totalDelta[1], sent[2] + totalDelta[2]>>
        ELSE IF inputPc = "send"
          THEN <<sent[1] + SumOfMoves(<<holder>>)[1], sent[2] + SumOfMoves(<<holder>>)[2]>>
        ELSE sent

\* C33: relative-move coalescing conserves motion. While the thread runs, the
\* deltaX and the deltaY of the packets sent, with what the thread holds, add up
\* to those of the relative moves taken from the queue, and the totals the
\* thread accumulates stay within -32768..32767, so the deltas it stores and
\* sends are the totals themselves.
C33_MotionConserved ==
    inputPc # "returned" =>
        /\ MotionSentAndHeld = SumOfMoves(TakenFromQueue)
        /\ totalDelta[1] \in INT16_MIN..INT16_MAX
        /\ totalDelta[2] \in INT16_MIN..INT16_MAX

\* Three moves were accepted, (30000, 0), (2767, 20000) and (30000, 0), and two
\* packets were sent: (32767, 20000) and (30000, 0)
C33_MergedUpToInt16Max ==
    /\ Len(accepted) = 3
    /\ AppVersionQuad = <<4, 0, 0>>
    /\ accepted = <<RelMousePacket(30000, 0), RelMousePacket(2767, 20000),
                    RelMousePacket(30000, 0)>>
    /\ packetQueue = <<>>
    /\ inputPc = "wait"
    /\ Len(inputSent) = 2
    /\ inputSent[1].packet = RelMousePacket(32767, 20000)
    /\ inputSent[2].packet = RelMousePacket(30000, 0)

-----------------------------------------------------------------------------
(* What encrypts an input packet on its way out, for servers of every       *)
(* generation                                                               *)

WireVersions == { <<3, 0, 0>>, <<4, 0, 0>>, <<5, 0, 0>>, <<7, 1, 415>>, <<7, 1, 431>> }

\* encryptData: AES-128-GCM for a Gen7 server, AES-128-CBC before
EncryptDataCipher == IF AppVersionQuad[1] >= 7 THEN "AES-128-GCM" ELSE "AES-128-CBC"

\* sendMessageEnet encrypts what it is given exactly when the control stream is
\* encrypted
SendMessageEnetCipher == IF encryptedControlStream THEN <<"AES-128-GCM">> ELSE <<>>

\* The encryptions applied to a packet the input thread has sent, in order: that
\* of encryptData, then that of the transport
LayersOf(sent) ==
    (IF sent.encrypted THEN <<EncryptDataCipher>> ELSE <<>>)
        \o (IF sent.via = "controlStream" THEN SendMessageEnetCipher ELSE <<>>)

outsideWire == <<AppVersionQuad, lastSeenFrame, sendVars, invalVars, qualityVars,
                 recvVars, callerVars, sessionVars, drainVars, codecVars, statsVars,
                 orderVars,
    recvLockVars,
    owedVars>>

InitWireSpec ==
    /\ AppVersionQuad \in WireVersions
    /\ InitSession

NextWire ==
    \/ StartInputThread /\ UNCHANGED outsideWire
    \/ StartInputInitialized /\ UNCHANGED outsideWire
    \/ StartInputEnableHaptics /\ UNCHANGED outsideWire
    \/ /\ nInputCalls < MaxInputCalls
       /\ LiSendMouseButtonEvent(7, 1)
       /\ UNCHANGED outsideWire
    \/ /\ nInputCalls < MaxInputCalls
       /\ LiSendMultiControllerEvent(0, 1, 0, <<0, 0>>, <<0, 0, 0, 0>>)
       /\ UNCHANGED outsideWire
    \/ InputWait /\ UNCHANGED outsideWire
    \/ InputBatch /\ UNCHANGED outsideWire
    \/ InputSend /\ UNCHANGED outsideWire

SpecWire == InitWireSpec /\ [][NextWire]_vars

\* C34: every input packet sent is encrypted exactly once. On a server of
\* 7.1.431 or later the input thread hands the plaintext to the control stream,
\* which encrypts it with AES-GCM; on every other server encryptData encrypts
\* it, with AES-GCM on Gen7 and AES-CBC before, and the transport (the TCP
\* socket before Gen5, the control stream from Gen5 on) adds no encryption.
C34_EncryptedExactlyOnce ==
    \A i \in 1..Len(inputSent) :
        /\ Len(LayersOf(inputSent[i])) = 1
        /\ inputSent[i].via = IF AppVersionQuad[1] < 5 THEN "inputSock" ELSE "controlStream"
        /\ LayersOf(inputSent[i]) =
              IF APP_VERSION_AT_LEAST(AppVersionQuad, 7, 1, 431) THEN <<"AES-128-GCM">>
              ELSE IF AppVersionQuad[1] >= 7 THEN <<"AES-128-GCM">>
              ELSE <<"AES-128-CBC">>
        /\ inputSent[i].encrypted = ~APP_VERSION_AT_LEAST(AppVersionQuad, 7, 1, 431)

\* On a 7.1.431 server the haptics packet and two more packets have been sent as
\* plaintext through the control stream
C34_PlaintextHandedToControlStream ==
    /\ AppVersionQuad = <<7, 1, 431>>
    /\ Len(inputSent) = 3
    /\ \A i \in 1..3 : ~inputSent[i].encrypted /\ inputSent[i].via = "controlStream"


\* Sends of one run of the specification of enetMutex
MaxMutexSends == 2

\* enetMutex exists for Gen5 and later; the receive thread decrypts on an
\* encrypted control stream only
MutexVersions == { <<7, 1, 415>>, <<7, 1, 431>> }

outsideMutex == <<AppVersionQuad, lastSeenFrame, invalVars, qualityVars, inputVars,
                  recvVars, callerVars, sessionVars, drainVars, codecVars,
                  statsVars, orderVars,
    owedVars>>

InitMutexSpec ==
    /\ AppVersionQuad \in MutexVersions
    /\ InitSession

\* The three senders and the receive thread, all taking enetMutex
NextMutex ==
    \/ \E t \in SenderThreads : nSends < MaxMutexSends /\ SendCreate(t)
                                  /\ UNCHANGED <<outsideMutex, recvLockVars>>
    \/ \E t \in SenderThreads : SendLockSeq(t) /\ UNCHANGED <<outsideMutex, recvLockVars>>
    \/ \E t \in SenderThreads : SendSeqAndEncrypt(t) /\ UNCHANGED <<outsideMutex, recvLockVars>>
    \/ \E t \in SenderThreads : SendLockSend(t) /\ UNCHANGED <<outsideMutex, recvLockVars>>
    \/ \E t \in SenderThreads : SendPeerSend(t) /\ UNCHANGED <<outsideMutex, recvLockVars>>
    \/ \E t \in SenderThreads : SendLockFlush(t) /\ UNCHANGED <<outsideMutex, recvLockVars>>
    \/ \E t \in SenderThreads : SendFlush(t) /\ UNCHANGED <<outsideMutex, recvLockVars>>
    \/ ReceiveLock /\ UNCHANGED <<outsideMutex, recvLockDone>>
    \/ ReceiveUnlock /\ UNCHANGED <<outsideMutex, recvLockDone>>
    \/ ReceiveUnlocked /\ UNCHANGED outsideMutex

SpecMutex == InitMutexSpec /\ [][NextMutex]_vars

\* C35: enetMutex is held only inside a critical section: a sender holds it only
\* between a lock and the unlock of sendMessageEnet, never when it has returned;
\* the receive thread holds it only in the poll, in the service of a pending
\* disconnect and in the decryption, never when it sleeps, calls a listener
\* callback or exits.  So whoever holds the mutex is at a step that releases it.
C35_MutexReleasedOnEveryPath ==
    /\ \A t \in SenderThreads :
         /\ sendPc[t] \in {"idle", "lockSeq", "lockSend", "lockFlush"} => enetMutex # t
         /\ enetMutex = t => sendPc[t] \in {"seq", "send", "flush"}
    /\ enetMutex = "controlReceive" <=> recvLockPc \in RecvHoldingPcs
    /\ ~recvLockDone.holding
    /\ enetMutex \in SenderThreads \cup {"controlReceive", "free"}

\* On an encrypted stream the receive thread sleeps without the mutex after its
\* poll, one send has failed in the encryption and returned, another has reached
\* the wire and returned, and the mutex is free
C35_UnlockedAfterFailures ==
    /\ encryptedControlStream
    /\ recvLockDone.op = "sleep"
    /\ enetMutex = "free"
    /\ currentEnetSequenceNumber = 2
    /\ Len(wire) = 1
    /\ \A t \in SenderThreads : sendPc[t] = "idle"


\* Calls of connectionDetectedFrameLoss and requestIdrOnDemand in one run of the
\* specification of the wake-ups
MaxRequests == 3

\* The same calls in one run of the specification of stopControlStream
MaxStopRequests == 1

outsideWake == <<AppVersionQuad, lastSeenFrame, sendVars, qualityVars, inputVars,
                 recvVars, callerVars, sessionVars, drainVars, codecVars,
                 statsVars, orderVars, recvLockVars>>

\* The producers and the worker, step by step, without stopControlStream and
\* with sends that succeed
NextWake ==
    \/ nRequests < MaxRequests /\ DetectFrameLoss /\ OwedFollowsWorker /\ UNCHANGED outsideWake
    \/ DetectFrameLossSetEvent /\ OwedFollowsWorker /\ UNCHANGED outsideWake
    \/ nRequests < MaxRequests /\ RequestIdrOnDemand /\ OwedFollowsWorker /\ UNCHANGED outsideWake
    \/ RequestIdrOnDemandSetEvent /\ OwedFollowsWorker /\ UNCHANGED outsideWake
    \/ IrfWait /\ OwedFollowsWorker /\ UNCHANGED outsideWake
    \/ IrfClearEvent /\ OwedFollowsWorker /\ UNCHANGED outsideWake
    \/ IrfCheckStopping /\ OwedFollowsWorker /\ UNCHANGED outsideWake
    \/ IrfCheckIdr /\ OwedFollowsWorker /\ UNCHANGED outsideWake
    \/ IrfDrain /\ OwedFollowsWorker /\ UNCHANGED outsideWake
    \/ IrfClearIdr /\ OwedFollowsWorker /\ UNCHANGED outsideWake
    \/ IrfSendIdr /\ OwedFollowsWorker /\ UNCHANGED outsideWake
    \/ IrfFirstPoll /\ OwedFollowsWorker /\ UNCHANGED outsideWake
    \/ IrfPoll /\ OwedFollowsWorker /\ UNCHANGED outsideWake
    \/ IrfSendRange /\ OwedFollowsWorker /\ UNCHANGED outsideWake
    \/ IrfSendReturns /\ OwedFollowsWorker /\ UNCHANGED outsideWake

\* A producer that has stored its request goes on to PltSetEvent
ProducerSetsEvent ==
    (DetectFrameLossSetEvent \/ RequestIdrOnDemandSetEvent)
        /\ OwedFollowsWorker /\ UNCHANGED outsideWake

\* The next step of invalidateRefFramesFunc, which a fair scheduler lets it take
WorkerStep ==
    (IrfWait \/ IrfClearEvent \/ IrfCheckStopping \/ IrfCheckIdr \/ IrfDrain \/ IrfClearIdr
       \/ IrfSendIdr \/ IrfFirstPoll \/ IrfPoll \/ IrfSendRange \/ IrfSendReturns)
        /\ OwedFollowsWorker /\ UNCHANGED outsideWake

SpecWake ==
    /\ InitInvalSpec
    /\ [][NextWake]_vars
    /\ WF_vars(ProducerSetsEvent)
    /\ WF_vars(WorkerStep)

\* C36: under fair scheduling, without shutdown and with sends that succeed,
\* every request of connectionDetectedFrameLoss and of requestIdrOnDemand is
\* followed by the dispatch of an InvalidateRefFrames message whose range covers
\* its tuple or of an IDR request: again and again nothing is owed, and the
\* worker does not stay in its wait while the event is set or a request is owed
C36_EveryRequestAnswered ==
    /\ []<>(owed = {})
    /\ [](owed # {} /\ irfPc = "wait" /\ ~lossCall.active /\ ~idrCall
            => invalidateRefFramesEvent)

\* Two requests or more have been made and their calls have returned, the worker
\* has cleared the event for the last time after the last PltSetEvent, and it
\* dispatches the IDR request that answers them all
C36_SetBetweenWaitAndClear ==
    /\ irfPc = "sending"
    /\ irfMsg = IdrFrameMessage
    /\ owed = {}
    /\ nRequests >= 2
    /\ ~invalidateRefFramesEvent
    /\ ~idrFrameRequired
    /\ invalidReferenceFrameTuples = <<>>
    /\ ~lossCall.active /\ ~idrCall


outsideStop == <<AppVersionQuad, lastSeenFrame, sendVars, qualityVars, inputVars,
                 recvVars, callerVars, drainVars, codecVars, statsVars, orderVars,
                 recvLockVars>>

\* invalidateRefFramesFunc, statement by statement, as the thread that
\* startControlStream creates: the thread waits for the event after the test of
\* its loop, and it has returned when the worker has left its loop
WorkerInSession ==
    /\ threadPc' = [threadPc EXCEPT !["invalidateRefFrames"] =
                       IF irfPc = "wait" /\ irfPc' = "clear" THEN "loop" ELSE @]
    /\ threadState' = [threadState EXCEPT !["invalidateRefFrames"] =
                          IF irfPc # "exited" /\ irfPc' = "exited" THEN "returned" ELSE @]
    /\ UNCHANGED <<ctlPhase, ctlScript, ctlErr, ctlSock, peer, client, threadInterrupted,
                   hostOps, unlockedOp, callbacks, sendFailed, afterFailure, released>>

\* The worker runs and the rest of the program stands still
WorkerRuns ==
    /\ threadState["invalidateRefFrames"] = "running"
    /\ OwedFollowsWorker
    /\ WorkerInSession
    /\ UNCHANGED outsideStop

\* A producer is called between the return of startControlStream and the return
\* of stopControlStream
ProducerRuns ==
    /\ ctlPhase \in {"started", "stopping"}
    /\ OwedFollowsWorker
    /\ WorkerInSession
    /\ UNCHANGED outsideStop

\* sendMessageAndDiscardReply can return: sendMessageEnet has taken enetMutex, or
\* the reply has arrived on ctlSock
SendCanReturn == AppVersionQuad[1] >= 5 => enetMutex = "free"

\* sendMessageAndDiscardReply must return: as above, and a recv on ctlSock that
\* no reply ends is ended by shutdownTcpSocket
SendMustReturn ==
    IF AppVersionQuad[1] >= 5 THEN enetMutex = "free" ELSE ctlSock = "shutdown"

\* The session with the invalidation worker statement by statement
NextStop ==
    \/ StartControlStream /\ UNCHANGED outsideControl
    \/ ControlEnetHostCreate /\ UNCHANGED outsideControl
    \/ ControlEnetHostConnect /\ UNCHANGED outsideControl
    \/ ControlServiceConnect /\ UNCHANGED outsideControl
    \/ ControlConnectTcp /\ UNCHANGED outsideControl
    \/ ControlCreateThread /\ UNCHANGED outsideControl
    \/ ControlSendStartBegin /\ UNCHANGED outsideControl
    \/ ControlSendStartEnd /\ UNCHANGED outsideControl
    \/ ControlShutdownSocket /\ UNCHANGED outsideControl
    \/ ControlInterruptThread /\ UNCHANGED outsideControl
    \/ ControlJoinThread /\ UNCHANGED outsideControl
    \/ ControlCloseThread /\ UNCHANGED outsideControl
    \/ ControlRelease /\ UNCHANGED outsideControl
    \/ ControlPeerReset /\ UNCHANGED outsideControl
    \/ ControlPeerDisconnect /\ UNCHANGED outsideControl
    \/ ControlHostDestroy /\ UNCHANGED outsideControl
    \/ ControlCloseSocket /\ UNCHANGED outsideControl
    \/ ControlReturn /\ UNCHANGED outsideControl
    \/ StopControlStream /\ UNCHANGED outsideControl
    \/ \E t \in ControlThreads :
         /\ t = "invalidateRefFrames" => irfPc = "wait"
         /\ ThreadExitsInterrupted(t) /\ UNCHANGED outsideControl
    \/ ReceiveThreadStarts /\ UNCHANGED outsideControl
    \/ ReceiveServiceBegin /\ UNCHANGED outsideControl
    \/ ReceiveServiceEnd /\ UNCHANGED outsideControl
    \/ LossStatsStarts /\ UNCHANGED outsideControl
    \/ ThreadSendBegin("lossStats") /\ UNCHANGED outsideControl
    \/ LossStatsSendEnd /\ UNCHANGED outsideControl
    \/ irfPc = "wait" /\ InvalidateThreadWaits /\ UNCHANGED outsideControl
    \/ nRequests < MaxStopRequests /\ DetectFrameLoss /\ ProducerRuns
    \/ DetectFrameLossSetEvent /\ ProducerRuns
    \/ nRequests < MaxStopRequests /\ RequestIdrOnDemand /\ ProducerRuns
    \/ RequestIdrOnDemandSetEvent /\ ProducerRuns
    \/ threadPc["invalidateRefFrames"] = "wait" /\ IrfWait /\ WorkerRuns
    \/ IrfClearEvent /\ WorkerRuns
    \/ IrfCheckStopping /\ WorkerRuns
    \/ IrfCheckIdr /\ WorkerRuns
    \/ IrfDrain /\ WorkerRuns
    \/ IrfClearIdr /\ WorkerRuns
    \/ IrfSendIdr /\ WorkerRuns
    \/ IrfFirstPoll /\ WorkerRuns
    \/ IrfPoll /\ WorkerRuns
    \/ IrfSendRange /\ WorkerRuns
    \/ SendCanReturn /\ IrfSendReturns /\ WorkerRuns

\* The statements of stopControlStream after PltSetEvent
StopperStep ==
    (ControlShutdownSocket \/ ControlInterruptThread \/ ControlJoinThread
       \/ ControlCloseThread \/ ControlPeerDisconnect \/ ControlHostDestroy
       \/ ControlCloseSocket \/ ControlReturn)
        /\ ctlPhase = "stopping" /\ UNCHANGED outsideControl

\* The next statement of invalidateRefFramesFunc
WorkerStepStop ==
    \/ /\ irfPc = "wait"
       /\ (InvalidateThreadWaits \/ ThreadExitsInterrupted("invalidateRefFrames"))
       /\ UNCHANGED outsideControl
    \/ /\ \/ threadPc["invalidateRefFrames"] = "wait" /\ IrfWait
          \/ IrfClearEvent \/ IrfCheckStopping \/ IrfCheckIdr \/ IrfDrain \/ IrfClearIdr
          \/ IrfSendIdr \/ IrfFirstPoll \/ IrfPoll \/ IrfSendRange
          \/ SendMustReturn /\ IrfSendReturns
       /\ WorkerRuns

\* The next statement of lossStatsThreadFunc
LossStatsStep ==
    (LossStatsStarts \/ ThreadSendBegin("lossStats") \/ LossStatsSendEnd
       \/ ThreadExitsInterrupted("lossStats"))
        /\ UNCHANGED outsideControl

\* The next statement of controlReceiveThreadFunc
ReceiveStep ==
    (ReceiveThreadStarts \/ ReceiveServiceBegin \/ ReceiveServiceEnd
       \/ ThreadExitsInterrupted("controlReceive"))
        /\ UNCHANGED outsideControl

\* A fair scheduler runs the caller of stopControlStream and the three threads
SpecStop ==
    /\ InitControlSpec
    /\ [][NextStop]_vars
    /\ WF_vars(StopperStep)
    /\ WF_vars(WorkerStepStop)
    /\ WF_vars(LossStatsStep)
    /\ WF_vars(ReceiveStep)

\* C37: stopControlStream always completes: once it has set stopping and the
\* event, the three threads return, whatever the invalidation worker was doing,
\* the three joins return, and stopControlStream returns; the joins have not
\* returned before the threads
C37_StopCompletes ==
    /\ []<>(ctlPhase # "stopping")
    /\ [](ctlPhase = "stopped" =>
            /\ \A t \in ControlThreads : threadState[t] = "closed"
            /\ irfPc \in {"wait", "exited"})
    /\ [](irfPc = "exited" => stopping)

\* stopControlStream has returned, and the invalidation worker has left its loop
\* on stopping after the dispatch of a request
C37_StoppedAfterDispatch ==
    /\ ctlPhase = "stopped"
    /\ irfPc = "exited"
    /\ owed = {}
    /\ nRequests > 0


\* Sends of one run of the long session: the sequence numbers 0 to 256
MaxIvSends == 257

\* The first send of the long session, in which packet creation, encryption and
\* enet_peer_send may fail; the sends that follow succeed
MaxIvFailures == 1

\* A server with an encrypted control stream
IvVersions == { <<7, 1, 431>> }

InitIvSpec ==
    /\ AppVersionQuad \in IvVersions
    /\ InitSession

\* The step does not end the send of t with a failure
SendGoesOn(t) == nSends > MaxIvFailures => sendPc'[t] # "idle"

\* The input thread sending packet after packet on the control stream
NextIv ==
    \/ nSends < MaxIvSends /\ SendCreate("inputSend") /\ SendGoesOn("inputSend")
                           /\ UNCHANGED outsideSend
    \/ SendLockSeq("inputSend") /\ UNCHANGED outsideSend
    \/ SendSeqAndEncrypt("inputSend") /\ SendGoesOn("inputSend") /\ UNCHANGED outsideSend
    \/ SendLockSend("inputSend") /\ UNCHANGED outsideSend
    \/ SendPeerSend("inputSend") /\ SendGoesOn("inputSend") /\ UNCHANGED outsideSend
    \/ SendLockFlush("inputSend") /\ UNCHANGED outsideSend
    \/ SendFlush("inputSend") /\ UNCHANGED outsideSend

SpecIv == InitIvSpec /\ [][NextIv]_vars

\* C38: no two encrypted frames that the session has handed to enet_peer_send
\* were encrypted under the same IV: in every state, the IV of the frame handed
\* over last is the IV of no encrypted frame handed over before
C38_IvDistinctForEveryFrame ==
    \A j \in 1..(Len(wire) - 1) :
        wire[Len(wire)].enc /\ wire[j].enc
            => GcmIv(wire[Len(wire)].seq) # GcmIv(wire[j].seq)
=============================================================================
